---- MODULE Spec2Model ----
(***************************************************************************)
(* Verification model of the 4DS importer/exporter of Mafia-Blender-Tools. *)
(*                                                                         *)
(* Spec      : The4DSImporter.import_file, the whole-file decode: header,  *)
(*             material table, frame loop, armature construction and       *)
(*             skinning, deferred parenting, animation flag.               *)
(*                                                                         *)
(* A scene object is identified by the 1-based position in the file of the *)
(* frame record that created it.  Names are strings; every non-joint frame *)
(* of the modelled files is called MeshName.                               *)
(***************************************************************************)
EXTENDS Integers, Sequences, FiniteSets, TLC

\* ------------------------------------------------------------------------
\* Bounds of the model
\* ------------------------------------------------------------------------
MaxFrames == 4
MaxParent == 3
MaxMaterials == 3
MaxLods == 2
MaxFaces == 2
MaxVertices == 5
MaxBones == 2
MaxFiles == 2
MaxLaterMaterials == 1
MaxStringLen == 257
MaxObjects == 2
MaxArmatures == 2
MaxTasks == 3
MaxBatch == 2
MaxSessions == 2

\* ------------------------------------------------------------------------
\* Program constants (src/Mafia_Formats/import_4ds.py)
\* ------------------------------------------------------------------------
VERSION_MAFIA     == 29
VERSION_HD2       == 41

FRAME_VISUAL      == 1
FRAME_LIGHT       == 2
FRAME_SECTOR      == 5
FRAME_DUMMY       == 6
FRAME_TARGET      == 7
FRAME_JOINT       == 10
FRAME_OCCLUDER    == 12

VISUAL_OBJECT      == 0
VISUAL_LITOBJECT   == 1
VISUAL_SINGLEMESH  == 2
VISUAL_SINGLEMORPH == 3
VISUAL_BILLBOARD   == 4
VISUAL_MORPH       == 5
VISUAL_LENS        == 6

MTL_ENVMAP        == 524288        \* 0x00080000
MTL_ADDEFFECT     == 32768         \* 0x00008000
MTL_ANIMTEXDIFF   == 67108864      \* 0x04000000
MTL_ALPHATEX      == 1073741824    \* 0x40000000
MTL_DIFFUSETEX    == 262144        \* 0x00040000
MTL_COLORKEY      == 536870912     \* 0x20000000

\* ------------------------------------------------------------------------
\* Generic helpers
\* ------------------------------------------------------------------------
\* Python dict assignment d[k] = v
Put(d, k, v) == [x \in (DOMAIN d) \cup {k} |-> IF x = k THEN v ELSE d[x]]

EmptyMap == [x \in {} |-> 0]

VARIABLES
    pc,                 \* position of import_file
    frame_count,        \* frame_count read from the file
    file,               \* the frame records read so far, in file order
    returned,           \* return value of each deserialize_frame call so far
    empties,            \* object id -> what deserialize_dummy set on the empty
    magic,              \* the four bytes read_string_fixed(f, 4) returned
    version,            \* self.version
    materials,          \* number of materials of the material table
    frame_index,        \* self.frame_index
    frames,             \* the list import_file returns: object ids
    frames_map,         \* self.frames_map : frame index -> object or joint name
    frame_types,        \* self.frame_types: frame index -> frame_type
    bones_map,          \* self.bones_map  : frame index -> bone name
    bone_nodes,         \* self.bone_nodes : bone id -> joint name
    joints,             \* self.joints
    armature,           \* self.armature is not None
    armature_bones,     \* names in self.armature.data.bones
    armature_scale_factor, \* self.armature_scale_factor (0 = None)
    parenting_info,     \* self.parenting_info
    skinned_meshes,     \* self.skinned_meshes (object ids)
    skinned,            \* meshes that apply_skinning was called on
    objects,            \* object id -> parent, parent_type, parent_bone
    parent_ops,         \* what apply_deferred_parenting did for each queue entry
    result              \* what import_file gave its caller

importVars == <<pc, frame_count, file, returned, empties, magic, version, materials,
                frame_index, frames, frames_map, frame_types, bones_map,
                bone_nodes, joints, armature, armature_bones,
                armature_scale_factor, parenting_info, skinned_meshes, skinned,
                objects, parent_ops, result>>

\* state of SpecMaterial: deserialize_material called record after record
VARIABLES
    mat_cache,          \* bpy.data.materials: material name -> handle
    mat_pos,            \* f.tell()
    mat_calls,          \* deserialize_material calls made so far
    mat_last,           \* the last call: its record, bytes consumed, cache hit
    mat_returned,       \* (material name, handle) of every call so far
    mat_file,           \* how many importers were constructed in this process
    mat_data,           \* handle -> what set_material_data put on the material
    mat_alone           \* name -> material data, had this file been decoded alone

matVars == <<mat_cache, mat_pos, mat_calls, mat_last, mat_returned, mat_file,
            mat_data, mat_alone>>

\* state of SpecLod: one mesh payload decoded with and without LOD import
VARIABLES
    lod_stream,         \* the bytes of the payload
    lod_read,           \* outcome of deserialize_object with drawLODS = True
    lod_skip            \* outcome of deserialize_object with drawLODS = False

lodVars == <<lod_stream, lod_read, lod_skip>>

\* state of SpecRoundTrip: one unskinned mesh written and read back
VARIABLES
    rt_pc,              \* "idle", "scene", "encoded", "encode_raised", "decoded"
    rt_mesh,            \* the mesh handed to serialize_object
    rt_encoded,         \* what serialize_object wrote and raised
    rt_decoded          \* what deserialize_object built from those bytes

rtVars == <<rt_pc, rt_mesh, rt_encoded, rt_decoded>>

\* state of SpecSkin: apply_skinning on one skinned mesh
VARIABLES
    skin_pc,            \* "idle", "bones", "remaining", "done"
    total_vertices,     \* len(mesh.data.vertices)
    lod_vertex_groups,  \* vertex_groups[0]: (bone_id, num_locked, weights)
    skin_next,          \* the entry of lod_vertex_groups the loop is at
    vertex_counter,     \* the running cursor
    vertex_weights,     \* (vertex group, vertex) -> weight in tenths
    file_bone_ids,      \* file_bone_id read with each entry of lod_vertex_groups
    vertex_group_names  \* bone_name of the vertex group each entry went to

skinVars == <<skin_pc, total_vertices, lod_vertex_groups, skin_next,
              vertex_counter, vertex_weights, file_bone_ids, vertex_group_names>>

\* state of SpecHelper: one value written by a Util.write_* call and read back
VARIABLES
    h_pc,               \* "value", "written", "read", "raised"
    h_value,            \* the value handed to the write call, with its kind
    h_stream,           \* the bytes the write call put on the stream
    h_read              \* what the read call returned, and where it stopped

helperVars == <<h_pc, h_value, h_stream, h_read>>

\* state of SpecExport: The4DSExporter.serialize_file on one selection
VARIABLES
    e_pc,               \* "idle", "frames", "done"
    e_objects,          \* self.objects: the scene nodes, in selection order
    e_armatures,        \* armatures: the number of bones of each
    e_next,             \* the entry of self.objects the frame loop is at
    e_arm,              \* the entry of armatures the joint loop is at
    e_frame_index,      \* self.frame_index
    e_frames_map,       \* self.frames_map: object or armature -> frame index
    e_joint_map,        \* self.joint_map: bone name -> frame index
    e_written           \* the frame records written so far, in file order

exportVars == <<e_pc, e_objects, e_armatures, e_next, e_arm, e_frame_index,
                e_frames_map, e_joint_map, e_written>>

\* state of SpecBatch: import sessions driven by the timer of import_mafia.py
VARIABLES
    b_pc,               \* "idle", "parsed", "waiting", "ended", "crashed"
    b_tasks,            \* the tasks the importer parses from the scene file
    b_files,            \* model name -> what decoding its file comes to
    b_batch_size,       \* prefs.batch_size
    b_session,          \* start_import_timer calls so far
    b_queue,            \* self.queue
    b_total,            \* self.total
    b_cache,            \* keys of import_model._cache
    b_log,              \* the tasks popped in this session and how each was served
    b_progress,         \* the values handed to wm.progress_update
    b_ended             \* end_import_timer calls in this session

batchVars == <<b_pc, b_tasks, b_files, b_batch_size, b_session, b_queue,
               b_total, b_cache, b_log, b_progress, b_ended>>

vars == <<importVars, matVars, lodVars, rtVars, skinVars, helperVars,
          exportVars, batchVars>>

nonImportVars == <<matVars, lodVars, rtVars, skinVars, helperVars, exportVars,
                  batchVars>>
nonMatVars    == <<importVars, lodVars, rtVars, skinVars, helperVars, exportVars,
                  batchVars>>
nonLodVars    == <<importVars, matVars, rtVars, skinVars, helperVars, exportVars,
                  batchVars>>
nonRtVars     == <<importVars, matVars, lodVars, skinVars, helperVars, exportVars,
                  batchVars>>
nonSkinVars   == <<importVars, matVars, lodVars, rtVars, helperVars, exportVars,
                  batchVars>>
nonHelperVars == <<importVars, matVars, lodVars, rtVars, skinVars, exportVars,
                  batchVars>>
nonExportVars == <<importVars, matVars, lodVars, rtVars, skinVars, helperVars,
                  batchVars>>
nonBatchVars  == <<importVars, matVars, lodVars, rtVars, skinVars, helperVars,
                  exportVars>>

\* ------------------------------------------------------------------------
\* The frame records a file may hold
\* ------------------------------------------------------------------------
MeshName == "mesh"
NONE     == 0          \* obj.parent is None
ARMATURE == 0 - 1      \* obj.parent is self.armature

ParentIds == 0..MaxParent

\* (frame_type, visual_type) of the non-joint records of the modelled files;
\* VISUAL_LENS and FRAME_LIGHT have no decoder.
PlainKinds ==
    { <<FRAME_VISUAL, VISUAL_OBJECT>>, <<FRAME_VISUAL, VISUAL_SINGLEMESH>>,
      <<FRAME_VISUAL, VISUAL_LENS>>,   <<FRAME_DUMMY, 0>>,
      <<FRAME_LIGHT, 0>> }

\* name, bone id and scale class of the joint records of the modelled files
\* (scale 1 stands for the vector (1, 1, 1), scale 2 for another vector)
JointVariants ==
    { [name |-> "j1", bone_id |-> 0, scale |-> 1],
      [name |-> "j2", bone_id |-> 1, scale |-> 2] }

\* min and max corner of a bounding box as the file holds them (x, y, z)
NoBox == [min |-> <<0, 0, 0>>, max |-> <<0, 0, 0>>]

Boxes == { [min |-> <<0, 0, 0>>, max |-> <<2, 4, 6>>],
           [min |-> <<0 - 2, 0 - 4, 0>>, max |-> <<2, 0, 8>>] }

BoxesOf(k) == IF k[1] = FRAME_DUMMY THEN Boxes ELSE {NoBox}

FrameRecords ==
    UNION { { [frame_type |-> k[1], visual_type |-> k[2], parent_id |-> p,
               name |-> MeshName, bone_id |-> 0, scale |-> 1, bbox |-> b]
                : p \in ParentIds, b \in BoxesOf(k) } : k \in PlainKinds }
    \cup
    { [frame_type |-> FRAME_JOINT, visual_type |-> 0, parent_id |-> p,
       name |-> j.name, bone_id |-> j.bone_id, scale |-> j.scale, bbox |-> NoBox]
        : j \in JointVariants, p \in ParentIds }


NewObject == [parent |-> NONE, parent_type |-> "OBJECT", parent_bone |-> ""]

ObjectEntry(id)  == [joint |-> FALSE, obj |-> id, name |-> ""]
JointEntry(name) == [joint |-> TRUE,  obj |-> 0,  name |-> name]

\* ------------------------------------------------------------------------
\* deserialize_frame: the dispatch on (frame_type, visual_type)
\* ------------------------------------------------------------------------
\* visual types decoded by make_mesh + deserialize_object (+ morph/billboard)
IsPlainMesh(fr) ==
    /\ fr.frame_type = FRAME_VISUAL
    /\ fr.visual_type \in {VISUAL_OBJECT, VISUAL_LITOBJECT, VISUAL_BILLBOARD,
                           VISUAL_MORPH}

\* visual types decoded by make_mesh + deserialize_object + deserialize_singlemesh
IsSkinnedMesh(fr) ==
    /\ fr.frame_type = FRAME_VISUAL
    /\ fr.visual_type \in {VISUAL_SINGLEMESH, VISUAL_SINGLEMORPH}

\* Dummy and Target (make_dummy), Sector and Occluder (make_mesh)
IsHelperFrame(fr) ==
    fr.frame_type \in {FRAME_DUMMY, FRAME_TARGET, FRAME_SECTOR, FRAME_OCCLUDER}

\* Util.read_vector3(f, reorder=True) on the floats x, y, z of the file
Reorder(v) == <<v[1], v[3], v[2]>>

Max3(v) == CHOOSE m \in {v[1], v[2], v[3]} : \A i \in 1..3 : v[i] <= m

\* deserialize_target's display settings on a frame that holds a box
DeserializeTargetOf(fr) ==
    [name |-> fr.name, empty_display_type |-> "PLAIN_AXES",
     empty_display_size |-> 1,
     bbox_min |-> <<fr.bbox.min[1], fr.bbox.min[3], fr.bbox.min[2]>>,
     bbox_max |-> <<fr.bbox.max[1], fr.bbox.max[3], fr.bbox.max[2]>>]

\* make_dummy + deserialize_dummy: the empty named after the frame, shown as a
\* cube of half the longest box edge (kept doubled: 2 * empty_display_size),
\* with the reordered box corners as custom properties
DeserializeDummyOf(fr) ==
    LET min_bounds == Reorder(fr.bbox.min)
        max_bounds == Reorder(fr.bbox.max)
    IN [name |-> fr.name, empty_display_type |-> "CUBE",
        empty_display_size |-> Max3([i \in 1..3 |-> max_bounds[i] - min_bounds[i]]),
        bbox_min |-> min_bounds, bbox_max |-> max_bounds]

\* the frame creates a scene object registered in frames and frames_map
CreatesObject(fr) == IsPlainMesh(fr) \/ IsSkinnedMesh(fr) \/ IsHelperFrame(fr)

\* deserialize_frame returns True
FrameSupported(fr) == CreatesObject(fr) \/ fr.frame_type = FRAME_JOINT

\* the FRAME_JOINT branch registers the joint only when an armature exists
JointRegistered(fr, arm) == fr.frame_type = FRAME_JOINT /\ arm

\* self.frame_index += 1 is executed on this path
ConsumesIndex(fr, arm) == CreatesObject(fr) \/ JointRegistered(fr, arm)

\* a frame index is queued before its parent has been decoded only by a
\* two-pass resolver; this one queues links to frames already seen only
QueueParentSeenOnly(q, idx, parent_id) ==
    IF parent_id > 0 /\ parent_id <= idx THEN Append(q, <<idx, parent_id>>) ELSE q

\* "if parent_id > 0: self.parenting_info.append((self.frame_index, parent_id))"
QueueParent(q, idx, parent_id) ==
    IF parent_id > 0 THEN Append(q, <<idx, parent_id>>) ELSE q

\* ------------------------------------------------------------------------
\* build_armature
\* ------------------------------------------------------------------------
\* a loop body that takes the scale of the latest root joint and never raises
\* on two different root scales
BuildJointLastScale(st, j, fmap) ==
    IF st.raised THEN st
    ELSE LET bm == st.bone_map \cup {j.name} IN
         IF j.parent_id = 1
         THEN [st EXCEPT !.bone_map = bm, !.scale_factor = j.scale,
                         !.parents = Append(@, "mesh")]
         ELSE IF j.scale # 1
              THEN [st EXCEPT !.raised = TRUE, !.bone_map = bm]
              ELSE [st EXCEPT !.bone_map = bm, !.parents = Append(@, "mesh")]

\* one iteration of "for name, matrix, parent_id, bone_id in self.joints";
\* st.bone_map holds the keys of the local dict bone_map
BuildJoint(st, j, fmap) ==
    IF st.raised THEN st
    ELSE LET bm == st.bone_map \cup {j.name} IN
         IF j.parent_id = 1
         THEN IF st.scale_factor # 0 /\ st.scale_factor # j.scale
              THEN [st EXCEPT !.raised = TRUE, !.bone_map = bm]
              ELSE [st EXCEPT !.bone_map = bm, !.scale_factor = j.scale,
                              !.parents = Append(@, MeshName)]
         ELSE IF j.scale # 1
              THEN [st EXCEPT !.raised = TRUE, !.bone_map = bm]
              ELSE LET known == /\ j.parent_id \in DOMAIN fmap
                                /\ fmap[j.parent_id].joint
                                /\ fmap[j.parent_id].name \in bm
                   IN [st EXCEPT !.bone_map = bm,
                                 !.parents = Append(@,
                                     IF known THEN fmap[j.parent_id].name
                                              ELSE MeshName)]

RECURSIVE BuildFrom(_, _, _, _)
BuildFrom(st, js, i, fmap) ==
    IF i > Len(js) THEN st
    ELSE BuildFrom(BuildJoint(st, js[i], fmap), js, i + 1, fmap)

\* build_armature(): raised = NotImplementedError was raised
BuildArmature(js, fmap, scale0) ==
    BuildFrom([raised |-> FALSE, bone_map |-> {MeshName},
               scale_factor |-> scale0, parents |-> <<>>], js, 1, fmap)

\* ------------------------------------------------------------------------
\* apply_deferred_parenting
\* ------------------------------------------------------------------------
\* a queue entry that attaches nothing ("continue"), with the reason logged
Skipped(why) == [kind |-> why, child |-> 0, bone |-> "", obj |-> NONE]

\* parent_to_bone(obj, bone_name)
ParentToBone(o, bone_name, arm, bones) ==
    IF ~arm \/ bone_name \notin bones THEN o
    ELSE [parent |-> ARMATURE, parent_type |-> "BONE", parent_bone |-> bone_name]

\* the body of the loop over self.parenting_info for one queue entry:
\* the objects afterwards and the branch that was taken
ResolveEntry(e, objs, fmap, ftypes, bmap, arm, bones) ==
    LET frame_idx   == e[1]
        parent_id   == e[2]
    IN
    IF frame_idx = parent_id
    THEN [objs |-> objs, op |-> Skipped("self")]
    ELSE IF frame_idx \notin DOMAIN fmap \/ fmap[frame_idx].joint
    THEN [objs |-> objs, op |-> Skipped("invalid_child")]
    ELSE IF parent_id \notin DOMAIN fmap
    THEN [objs |-> objs, op |-> Skipped("parent_not_found")]
    ELSE LET child       == fmap[frame_idx].obj
             parent_type == IF parent_id \in DOMAIN ftypes
                            THEN ftypes[parent_id] ELSE 0
         IN
         IF parent_type = FRAME_JOINT
         THEN IF ~arm THEN [objs |-> objs, op |-> Skipped("no_armature")]
              ELSE IF parent_id \notin DOMAIN bmap
              THEN [objs |-> objs, op |-> Skipped("no_bone_name")]
              ELSE IF bmap[parent_id] \notin bones
              THEN [objs |-> objs, op |-> Skipped("no_bone")]
              ELSE [objs |-> [objs EXCEPT ![child] =
                                 ParentToBone(@, bmap[parent_id], arm, bones)],
                    op |-> [kind |-> "bone", child |-> child,
                            bone |-> bmap[parent_id], obj |-> ARMATURE]]
         ELSE IF fmap[parent_id].joint
              THEN [objs |-> objs, op |-> Skipped("joint_mismatch")]
              ELSE [objs |-> [objs EXCEPT ![child].parent = fmap[parent_id].obj],
                    op |-> [kind |-> "object", child |-> child,
                            bone |-> "", obj |-> fmap[parent_id].obj]]

RECURSIVE ResolveFrom(_, _, _, _, _, _, _, _, _)
ResolveFrom(i, q, objs, ops, fmap, ftypes, bmap, arm, bones) ==
    IF i > Len(q) THEN [objs |-> objs, ops |-> ops]
    ELSE LET r == ResolveEntry(q[i], objs, fmap, ftypes, bmap, arm, bones)
         IN ResolveFrom(i + 1, q, r.objs, Append(ops, r.op),
                        fmap, ftypes, bmap, arm, bones)

\* apply_deferred_parenting(): walks the whole queue in order
ApplyDeferredParentingOf(q, objs, fmap, ftypes, bmap, arm, bones) ==
    ResolveFrom(1, q, objs, <<>>, fmap, ftypes, bmap, arm, bones)

\* ------------------------------------------------------------------------
\* deserialize_material
\* ------------------------------------------------------------------------
\* A string is the sequence of its character codes.
\* "flags & BIT" is non-zero (BIT a power of two)
HasFlag(flags, bit) == (flags \div bit) % 2 = 1

\* str.lower() on the codes of A..Z
Lower(str) == [i \in DOMAIN str |->
                 IF str[i] \in 65..90 THEN str[i] + 32 ELSE str[i]]

\* bytes Util.read_string takes from the stream: the length byte and the text
StringBytes(str) == 1 + Len(str)

\* the name "material" given to a material without diffuse texture
DefaultMaterialName == <<109, 97, 116, 101, 114, 105, 97, 108>>

\* mat_name = diffuse_tex if diffuse_tex else "material"
MaterialName(rec) ==
    IF Lower(rec.diffuse_tex) = <<>> THEN DefaultMaterialName
    ELSE Lower(rec.diffuse_tex)

\* has_alpha_tex = bool(flags & MTL_ADDEFFECT and flags & MTL_ALPHATEX)
HasAlphaTex(flags) == HasFlag(flags, MTL_ADDEFFECT) /\ HasFlag(flags, MTL_ALPHATEX)

\* bytes read from the flag word to the end of the diffuse texture name
MaterialHeadBytes(rec) ==
    4 + 12 + 12 + 12 + 4
    + (IF HasFlag(rec.flags, MTL_ENVMAP) THEN 4 + StringBytes(rec.env_tex) ELSE 0)
    + StringBytes(rec.diffuse_tex)

\* a reuse path that returns the cached material at once
CacheHitTailNone(rec) == 0

\* bytes read after the diffuse name when the material is reused ("if mat:")
CacheHitTail(rec) ==
    (IF HasAlphaTex(rec.flags) THEN StringBytes(rec.alpha_tex) ELSE 0)
    + (IF HasFlag(rec.flags, MTL_ANIMTEXDIFF) THEN 18 ELSE 0)

\* bytes read after the diffuse name when a new material is created
CacheMissTail(rec) ==
    (IF HasAlphaTex(rec.flags) THEN StringBytes(rec.alpha_tex) ELSE 0)
    + (IF HasFlag(rec.flags, MTL_ANIMTEXDIFF) THEN 18 ELSE 0)

\* deserialize_material(f) on record rec with the stream at pos
DeserializeMaterialOf(rec, pos, cache) ==
    LET mat_name == MaterialName(rec)
        hit      == mat_name \in DOMAIN cache
    IN IF hit
       THEN [pos    |-> pos + MaterialHeadBytes(rec) + CacheHitTail(rec),
             cache  |-> cache,
             handle |-> cache[mat_name],
             hit    |-> TRUE]
       ELSE [pos    |-> pos + MaterialHeadBytes(rec) + CacheMissTail(rec),
             cache  |-> Put(cache, mat_name, Cardinality(DOMAIN cache) + 1),
             handle |-> Cardinality(DOMAIN cache) + 1,
             hit    |-> FALSE]

\* the material records of the modelled streams: every combination of the
\* four flags that select fields, with the optional strings present exactly
\* when their flags are set
MaterialFlagWords ==
    { a + b + c + d : a \in {0, MTL_ENVMAP}, b \in {0, MTL_ADDEFFECT},
                      c \in {0, MTL_ALPHATEX}, d \in {0, MTL_ANIMTEXDIFF} }

TextureNames == { <<>>, <<97>>, <<65>>, <<98, 120>> }

MaterialRecords ==
    UNION { { [flags |-> fl, env_tex |-> e, diffuse_tex |-> d, alpha_tex |-> a] :
                d \in TextureNames,
                e \in { IF HasFlag(fl, MTL_ENVMAP) THEN <<101, 110, 118>> ELSE <<>> },
                a \in { <<>>, <<109>> } } : fl \in MaterialFlagWords }

\* the bytes a record occupies in a file, each field present as its flags say
WellFormed(rec) ==
    /\ (~HasFlag(rec.flags, MTL_ENVMAP) => rec.env_tex = <<>>)
    /\ (~HasAlphaTex(rec.flags) => rec.alpha_tex = <<>>)

NoMaterialCall == [rec |-> [flags |-> 0, env_tex |-> <<>>, diffuse_tex |-> <<>>,
                            alpha_tex |-> <<>>],
                   consumed |-> 0, hit |-> FALSE, handle |-> 0]

MatInit ==
    /\ mat_cache = [x \in {} |-> 0]
    /\ mat_pos = 0
    /\ mat_calls = 0
    /\ mat_last = NoMaterialCall
    /\ mat_returned = {}
    /\ mat_file = 1
    /\ mat_data = EmptyMap
    /\ mat_alone = EmptyMap

\* the arguments of set_material_data that the record holds
MaterialData(rec) ==
    [env_tex |-> IF HasFlag(rec.flags, MTL_ENVMAP) THEN rec.env_tex ELSE <<>>,
     alpha_tex |-> IF HasAlphaTex(rec.flags) THEN Lower(rec.alpha_tex) ELSE <<>>]

\* one deserialize_material call of the material table loop
DeserializeMaterial ==
    /\ mat_calls < (IF mat_file = 1 THEN MaxMaterials ELSE MaxLaterMaterials)
    /\ \E rec \in MaterialRecords :
          /\ WellFormed(rec)
          /\ LET r == DeserializeMaterialOf(rec, mat_pos, mat_cache)
             IN /\ mat_pos' = r.pos
                /\ mat_cache' = r.cache
                /\ mat_last' = [rec |-> rec, consumed |-> r.pos - mat_pos,
                                hit |-> r.hit, handle |-> r.handle]
                /\ mat_returned' = mat_returned \cup {<<MaterialName(rec), r.handle>>}
                /\ mat_data' = IF r.hit THEN mat_data
                               ELSE Put(mat_data, r.handle, MaterialData(rec))
                /\ mat_alone' = IF MaterialName(rec) \in DOMAIN mat_alone
                                THEN mat_alone
                                ELSE Put(mat_alone, MaterialName(rec), MaterialData(rec))
    /\ mat_calls' = mat_calls + 1
    /\ UNCHANGED mat_file
    /\ UNCHANGED nonMatVars

\* The4DSImporter(filepath) for the next file of the process, then import_file
\* up to the material table: the fields of the instance start empty, and
\* bpy.data.materials is what the decodes before left in it
NextImporter ==
    /\ mat_file < MaxFiles
    /\ mat_calls > 0
    /\ mat_file' = mat_file + 1
    /\ mat_pos' = 0
    /\ mat_calls' = 0
    /\ mat_last' = NoMaterialCall
    /\ mat_returned' = {}
    /\ mat_alone' = EmptyMap
    /\ UNCHANGED <<mat_cache, mat_data>>
    /\ UNCHANGED nonMatVars

NextFiles == DeserializeMaterial \/ NextImporter

\* ------------------------------------------------------------------------
\* Util: little-endian fields of the byte stream
\* ------------------------------------------------------------------------
\* A stream is a sequence of bytes; a position p is the count of bytes before
\* the next one read.  A float is a small integer kept as magnitude byte and
\* sign bit (top bit of the last byte).

\* f.read(n) returns n bytes; struct.unpack raises struct.error on fewer
Readable(s, p, n) == p + n <= Len(s)

ReadU8(s, p) == s[p + 1]

ReadU16(s, p) == s[p + 1] + 256 * s[p + 2]

ReadF32(s, p) ==
    IF s[p + 4] >= 128 THEN 0 - (s[p + 1] + 256 * s[p + 2])
    ELSE s[p + 1] + 256 * s[p + 2]

\* read_vector3(f, reorder=True): x, y, z = unpack; Vector((x, z, y))
ReadVector3(s, p) == <<ReadF32(s, p), ReadF32(s, p + 8), ReadF32(s, p + 4)>>

ReadVector2(s, p) == <<ReadF32(s, p), ReadF32(s, p + 4)>>

WriteU8(n) == <<n % 256>>

WriteU16(n) == <<n % 256, (n \div 256) % 256>>

WriteF32(x) ==
    IF x < 0 THEN <<(0 - x) % 256, ((0 - x) \div 256) % 256, 0, 128>>
    ELSE <<x % 256, (x \div 256) % 256, 0, 0>>

\* write_vector3(f, vec, True): pack(vec.x, vec.z, vec.y)
WriteVector3(vec) == WriteF32(vec[1]) \o WriteF32(vec[3]) \o WriteF32(vec[2])

WriteVector2(vec) == WriteF32(vec[1]) \o WriteF32(vec[2])

\* ------------------------------------------------------------------------
\* deserialize_object
\* ------------------------------------------------------------------------
\* bm.faces.new raises ValueError for a repeated vertex or an existing face
FaceRejected(verts, faces) ==
    \/ Cardinality({verts[i] : i \in 1..3}) < 3
    \/ \E k \in DOMAIN faces :
          {faces[k].verts[i] : i \in 1..3} = {verts[i] : i \in 1..3}

\* the vertex records of one LOD: position, normal, uv with V flipped
ReadVertices(s, p, num_vertices) ==
    [i \in 1..num_vertices |->
        LET q  == p + 32 * (i - 1)
            uv == ReadVector2(s, q + 24)
        IN [co |-> ReadVector3(s, q), normal |-> ReadVector3(s, q + 12),
            uv |-> <<uv[1], 0 - uv[2]>>]]

\* the faces of one face group: each (i0, i1, i2) becomes (i0, i2, i1)
RECURSIVE ReadFaces(_, _, _, _, _, _)
ReadFaces(s, p, left, num_vertices, slot_idx, faces) ==
    IF left = 0 THEN [raised |-> "", pos |-> p, faces |-> faces]
    ELSE IF ~Readable(s, p, 6)
    THEN [raised |-> "struct.error", pos |-> Len(s), faces |-> faces]
    ELSE LET idxs      == <<ReadU16(s, p), ReadU16(s, p + 2), ReadU16(s, p + 4)>>
             idxs_swap == <<idxs[1], idxs[3], idxs[2]>>
         IN IF \E i \in 1..3 : idxs_swap[i] >= num_vertices
            THEN [raised |-> "IndexError", pos |-> p + 6, faces |-> faces]
            ELSE ReadFaces(s, p + 6, left - 1, num_vertices, slot_idx,
                    IF FaceRejected(idxs_swap, faces) THEN faces
                    ELSE Append(faces, [verts |-> idxs_swap,
                                        material_index |-> slot_idx]))

\* the face groups of a LOD that is built
RECURSIVE ReadFaceGroups(_, _, _, _, _, _, _)
ReadFaceGroups(s, p, left, num_vertices, slot_idx, faces, mats) ==
    IF left = 0 THEN [raised |-> "", pos |-> p, faces |-> faces, mats |-> mats]
    ELSE IF ~Readable(s, p, 2)
    THEN [raised |-> "struct.error", pos |-> Len(s), faces |-> faces, mats |-> mats]
    ELSE LET r == ReadFaces(s, p + 2, ReadU16(s, p), num_vertices, slot_idx, faces)
         IN IF r.raised # ""
            THEN [raised |-> r.raised, pos |-> r.pos, faces |-> r.faces, mats |-> mats]
            ELSE IF ~Readable(s, r.pos, 2)
            THEN [raised |-> "struct.error", pos |-> Len(s),
                  faces |-> r.faces, mats |-> mats]
            ELSE ReadFaceGroups(s, r.pos + 2, left - 1, num_vertices, slot_idx + 1,
                                r.faces, Append(mats, ReadU16(s, r.pos)))

\* a skip that leaves the material index of the group unread
SkipFacesOnly(num_faces) == num_faces * 6

\* f.seek(num_faces * 6 + 2, 1)
SkipFaces(num_faces) == num_faces * 6 + 2

\* the face groups of a LOD that is skipped; seeking past the end is allowed
RECURSIVE SkipFaceGroups(_, _, _)
SkipFaceGroups(s, p, left) ==
    IF left = 0 THEN [raised |-> "", pos |-> p]
    ELSE IF ~Readable(s, p, 2) THEN [raised |-> "struct.error", pos |-> Len(s)]
    ELSE SkipFaceGroups(s, p + 2 + SkipFaces(ReadU16(s, p)), left - 1)

\* bmesh.ops.remove_doubles: vertices at one place become the first of them,
\* and a face left with a repeated vertex is dissolved
RemoveDoubles(vertices, faces) ==
    LET first(i) == CHOOSE j \in 1..i :
                        /\ vertices[j].co = vertices[i].co
                        /\ \A k \in 1..(j - 1) : vertices[k].co # vertices[i].co
        weld(f)  == [f EXCEPT !.verts = [c \in 1..3 |-> first(f.verts[c] + 1) - 1]]
        welded   == [k \in DOMAIN faces |-> weld(faces[k])]
    IN SelectSeq(welded, LAMBDA f : Cardinality({f.verts[c] : c \in 1..3}) = 3)

\* one pass of "for lod_idx in range(num_lods)" and the passes after it
RECURSIVE ReadLods(_, _, _, _, _, _, _)
ReadLods(s, p, lod_idx, num_lods, drawLODS, remove_doubles, lods) ==
    IF lod_idx = num_lods THEN [raised |-> "", pos |-> p, lods |-> lods]
    ELSE IF ~Readable(s, p, 6)
    THEN [raised |-> "struct.error", pos |-> Len(s), lods |-> lods]
    ELSE
    LET draw         == lod_idx = 0 \/ drawLODS
        num_vertices == ReadU16(s, p + 4)
        q            == p + 6
    IN IF ~draw
       THEN LET after == q + (12 + 12 + 8) * num_vertices
            IN IF ~Readable(s, after, 1)
               THEN [raised |-> "struct.error", pos |-> Len(s), lods |-> lods]
               ELSE LET r == SkipFaceGroups(s, after + 1, ReadU8(s, after))
                    IN IF r.raised # ""
                       THEN [raised |-> r.raised, pos |-> r.pos, lods |-> lods]
                       ELSE ReadLods(s, r.pos, lod_idx + 1, num_lods, drawLODS,
                                     remove_doubles, lods)
       ELSE IF ~Readable(s, q, 32 * num_vertices + 1)
       THEN [raised |-> "struct.error", pos |-> Len(s), lods |-> lods]
       ELSE LET vertices == ReadVertices(s, q, num_vertices)
                after    == q + 32 * num_vertices
                r == ReadFaceGroups(s, after + 1, ReadU8(s, after), num_vertices,
                                    0, <<>>, <<>>)
            IN IF r.raised # ""
               THEN [raised |-> r.raised, pos |-> r.pos, lods |-> lods]
               ELSE ReadLods(s, r.pos, lod_idx + 1, num_lods, drawLODS,
                        remove_doubles,
                        Append(lods,
                          [vertices |-> vertices,
                           faces |-> IF remove_doubles
                                     THEN RemoveDoubles(vertices, r.faces)
                                     ELSE r.faces,
                           materials |-> r.mats]))

\* deserialize_object(f, ...) on stream s at position p
DeserializeObjectOf(s, p, drawLODS, remove_doubles) ==
    IF ~Readable(s, p, 3)
    THEN [raised |-> "struct.error", pos |-> Len(s), num_lods |-> 0, lods |-> <<>>]
    ELSE LET num_lods == ReadU8(s, p + 2)
             r == ReadLods(s, p + 3, 0, num_lods, drawLODS, remove_doubles, <<>>)
         IN [raised |-> r.raised, pos |-> r.pos, num_lods |-> num_lods,
             lods |-> r.lods]

\* ------------------------------------------------------------------------
\* serialize_object
\* ------------------------------------------------------------------------
\* A mesh is [has_uv, material_slots, faces]: vertex v lies at VertexCo(v), a
\* face is [verts, uvs, material_index] with one uv per loop, and
\* material_slots[k] is the 1-based place of the slot's material in
\* self.materials, 0 when it is not there.
VertexCo(v) == <<v, v + 1, 0 - v>>

VertexNormal(v) == <<0, 0, 1>>

\* bmesh.ops.split_edges gives every face its own vertices: the first face
\* around a vertex keeps the vertex, a later one gets a copy
IsSplitCopy(faces, fi, v) ==
    \E fj \in 1..(fi - 1) : \E c \in 1..3 : faces[fj].verts[c] = v

\* v.index of a loop's vertex; the index of a vertex that split_edges made
\* is not maintained: it is either still that of its original or -1
LoopVertIndex(faces, fi, v, index_kept) ==
    IF index_kept \/ ~IsSplitCopy(faces, fi, v) THEN v ELSE 0 - 1

\* the place of key in index_map, 0 when absent
KeyIndex(keys, key) ==
    IF \E i \in DOMAIN keys : keys[i] = key
    THEN CHOOSE i \in DOMAIN keys : keys[i] = key
    ELSE 0

\* face_groups.setdefault(slot, []).append(face_indices)
AddToGroup(groups, slot, face_indices) ==
    IF \E g \in DOMAIN groups : groups[g].slot = slot
    THEN [g \in DOMAIN groups |->
            IF groups[g].slot = slot
            THEN [groups[g] EXCEPT !.faces = Append(@, face_indices)]
            ELSE groups[g]]
    ELSE Append(groups, [slot |-> slot, faces |-> <<face_indices>>])

\* the loops face.loops[0], face.loops[2], face.loops[1] of face fi
RECURSIVE FlattenLoops(_, _, _, _, _, _)
FlattenLoops(mesh, fi, order, index_kept, st, face_indices) ==
    IF order = <<>> THEN [st EXCEPT !.face_indices = face_indices]
    ELSE LET face == mesh.faces[fi]
             v    == face.verts[Head(order)]
             uv   == face.uvs[Head(order)]
             key  == <<LoopVertIndex(mesh.faces, fi, v, index_kept), uv>>
             had  == KeyIndex(st.keys, key)
             st2  == IF had # 0 THEN st
                     ELSE [st EXCEPT
                             !.keys = Append(@, key),
                             !.export = Append(@, [co |-> VertexCo(v),
                                                   normal |-> VertexNormal(v),
                                                   uv |-> <<uv[1], 0 - uv[2]>>])]
         IN FlattenLoops(mesh, fi, Tail(order), index_kept, st2,
                         Append(face_indices, KeyIndex(st2.keys, key) - 1))

\* "for face in bm.faces": the flattened vertex list and the face groups
RECURSIVE FlattenFaces(_, _, _, _)
FlattenFaces(mesh, fi, index_kept, st) ==
    IF fi > Len(mesh.faces) THEN st
    ELSE LET r == FlattenLoops(mesh, fi, <<1, 3, 2>>, index_kept, st, <<>>)
         IN FlattenFaces(mesh, fi + 1, index_kept,
               [r EXCEPT !.groups = AddToGroup(@, mesh.faces[fi].material_index,
                                               r.face_indices)])

\* b"".join(parts)
RECURSIVE Concat(_)
Concat(parts) == IF parts = <<>> THEN <<>> ELSE Head(parts) \o Concat(Tail(parts))

\* "Write vertices": the count, then position, normal and uv of each
WriteVertices(export) ==
    WriteU16(Len(export))
    \o Concat([i \in DOMAIN export |->
                 WriteVector3(export[i].co) \o WriteVector3(export[i].normal)
                 \o WriteVector2(export[i].uv)])

\* write_face_indices for every face of a group
WriteFaces(faces) ==
    Concat([k \in DOMAIN faces |->
              WriteU16(faces[k][1]) \o WriteU16(faces[k][2]) \o WriteU16(faces[k][3])])

\* "for mat_idx, faces in face_groups.items()"
RECURSIVE WriteFaceGroups(_, _, _, _)
WriteFaceGroups(groups, g, material_slots, bytes) ==
    IF g > Len(groups) THEN [raised |-> "", bytes |-> bytes]
    ELSE LET mat_idx  == groups[g].slot
             body     == WriteU16(Len(groups[g].faces)) \o WriteFaces(groups[g].faces)
             mat_slot == IF mat_idx < Len(material_slots) THEN mat_idx ELSE 0
         IN IF mat_slot >= Len(material_slots)
            THEN [raised |-> "IndexError", bytes |-> bytes \o body]
            ELSE WriteFaceGroups(groups, g + 1, material_slots,
                    bytes \o body \o WriteU16(material_slots[mat_slot + 1]))

\* "Write vertices" and "Write face groups" of one LOD
WriteLodBody(export, groups, material_slots) ==
    WriteFaceGroups(groups, 1, material_slots,
                    WriteVertices(export) \o WriteU8(Len(groups)))

\* one pass of "for lod_idx, lod_obj in enumerate(lods)" and those after it
RECURSIVE SerializeLods(_, _, _, _)
SerializeLods(lods, lod_idx, index_kept, bytes) ==
    IF lod_idx = Len(lods) THEN [raised |-> "", bytes |-> bytes]
    ELSE LET mesh  == lods[lod_idx + 1]
             start == bytes \o WriteF32(100 * (1 + lod_idx))
         IN IF ~mesh.has_uv /\ mesh.faces # <<>>
            THEN [raised |-> "AttributeError", bytes |-> start]
            ELSE LET flat == FlattenFaces(mesh, 1, index_kept,
                                [keys |-> <<>>, export |-> <<>>, groups |-> <<>>,
                                 face_indices |-> <<>>])
                     r == WriteLodBody(flat.export, flat.groups, mesh.material_slots)
                 IN IF r.raised # ""
                    THEN [raised |-> r.raised, bytes |-> start \o r.bytes]
                    ELSE SerializeLods(lods, lod_idx + 1, index_kept,
                                       start \o r.bytes)

\* serialize_object(f, obj, lods): what it wrote, and what it raised
SerializeObjectOf(lods, index_kept) ==
    SerializeLods(lods, 0, index_kept, WriteU16(0) \o WriteU8(Len(lods)))

\* ------------------------------------------------------------------------
\* Mesh payloads decoded with and without LOD import (SpecLod)
\* ------------------------------------------------------------------------
\* face lists of a group: none, one face, and a pair whose second face names
\* vertex 3
FaceLists == { <<>>, << <<0, 2, 1>> >>, << <<0, 1, 2>>, <<1, 0, 3>> >> }

GroupLists ==
    { <<>> }
    \cup { << [slot |-> 0, faces |-> a] >> : a \in FaceLists }
    \cup { << [slot |-> 0, faces |-> a], [slot |-> 1, faces |-> b] >> :
             a \in FaceLists, b \in FaceLists }

LodShapes == { [num_vertices |-> n, groups |-> g] : n \in {0, 3}, g \in GroupLists }

LodLists == UNION { [1..n -> LodShapes] : n \in 0..MaxLods }

\* the vertex records of a LOD of n vertices
ShapeVertices(n) ==
    [v \in 1..n |-> [co |-> VertexCo(v - 1), normal |-> VertexNormal(v - 1),
                     uv |-> <<0, 0>>]]

\* the payload with the LODs of shapes, laid out as serialize_object writes it
PayloadOf(shapes) ==
    WriteU16(0) \o WriteU8(Len(shapes))
    \o Concat([i \in DOMAIN shapes |->
                 WriteF32(100 * i)
                 \o WriteLodBody(ShapeVertices(shapes[i].num_vertices),
                                 shapes[i].groups, <<1>>).bytes])

NoRun == [done |-> FALSE, raised |-> "", pos |-> 0, lods |-> <<>>]

\* what a deserialize_object call left behind: the exception, the stream
\* position, and vertex and face count of every LOD it built
RunOf(r) ==
    [done |-> TRUE, raised |-> r.raised, pos |-> r.pos,
     lods |-> [i \in DOMAIN r.lods |->
                 [num_vertices |-> Len(r.lods[i].vertices),
                  num_faces |-> Len(r.lods[i].faces)]]]

LodIdle ==
    /\ lod_stream = <<>>
    /\ lod_read = NoRun
    /\ lod_skip = NoRun

LodInit ==
    /\ lod_stream \in { PayloadOf(shapes) : shapes \in LodLists }
    /\ lod_read = NoRun
    /\ lod_skip = NoRun

\* deserialize_object with prefs.import_lods set
DecodeWithLods ==
    /\ ~lod_read.done
    /\ \E remove_doubles \in BOOLEAN :
          lod_read' = RunOf(DeserializeObjectOf(lod_stream, 0, TRUE, remove_doubles))
    /\ UNCHANGED <<lod_stream, lod_skip>>
    /\ UNCHANGED nonLodVars

\* deserialize_object with prefs.import_lods cleared
DecodeWithoutLods ==
    /\ ~lod_skip.done
    /\ \E remove_doubles \in BOOLEAN :
          lod_skip' = RunOf(DeserializeObjectOf(lod_stream, 0, FALSE, remove_doubles))
    /\ UNCHANGED <<lod_stream, lod_read>>
    /\ UNCHANGED nonLodVars

NextLod == DecodeWithLods \/ DecodeWithoutLods

\* ------------------------------------------------------------------------
\* One unskinned mesh through serialize_object and deserialize_object
\* (SpecRoundTrip)
\* ------------------------------------------------------------------------
\* triangles over four vertices, no two on the same three vertices
Triangles == { <<0, 1, 2>>, <<2, 1, 3>>, <<1, 0, 3>> }

\* the uvs of the three loops of a face: all alike, or all different
LoopUVs == { << <<0, 0>>, <<0, 0>>, <<0, 0>> >>, << <<0, 0>>, <<1, 0>>, <<0, 1>> >> }

MeshFaces ==
    { [verts |-> t, uvs |-> u, material_index |-> m] :
        t \in Triangles, u \in LoopUVs, m \in {0, 1} }

\* a mesh holds each face once
FaceLayouts ==
    { fs \in UNION { [1..n -> MeshFaces] : n \in 0..MaxFaces } :
        \A i \in DOMAIN fs : \A j \in DOMAIN fs :
            i # j => fs[i].verts # fs[j].verts }

\* without a UV layer the loops carry no uv
Meshes ==
    { [has_uv |-> h, material_slots |-> ms, faces |-> fs] :
        h \in BOOLEAN, ms \in { <<>>, <<1>>, <<1, 0>> }, fs \in FaceLayouts }

NoEncoding == [raised |-> "", bytes |-> <<>>, index_kept |-> TRUE]

NoDecoding == [raised |-> "", pos |-> 0, triangles |-> <<>>]

NoMesh == [has_uv |-> FALSE, material_slots |-> <<>>, faces |-> <<>>]

\* the triangles of a mesh as the places of their three corners
TrianglesOf(vertices, faces) ==
    [k \in DOMAIN faces |-> [c \in 1..3 |-> vertices[faces[k].verts[c] + 1].co]]

RtIdle ==
    /\ rt_pc = "idle"
    /\ rt_mesh = NoMesh
    /\ rt_encoded = NoEncoding
    /\ rt_decoded = NoDecoding

RtInit ==
    /\ rt_pc = "scene"
    /\ rt_mesh \in { m \in Meshes :
                       ~m.has_uv => \A k \in DOMAIN m.faces :
                                       m.faces[k].uvs[2] = <<0, 0>> }
    /\ rt_encoded = NoEncoding
    /\ rt_decoded = NoDecoding

\* serialize_frame for a VISUAL_OBJECT mesh: serialize_object(f, obj, [obj])
SerializeObject ==
    /\ rt_pc = "scene"
    /\ \E index_kept \in BOOLEAN :
          LET r == SerializeObjectOf(<<rt_mesh>>, index_kept)
          IN /\ rt_encoded' = [raised |-> r.raised, bytes |-> r.bytes,
                               index_kept |-> index_kept]
             /\ rt_pc' = IF r.raised = "" THEN "encoded" ELSE "encode_raised"
    /\ UNCHANGED <<rt_mesh, rt_decoded>>
    /\ UNCHANGED nonRtVars

\* deserialize_frame for a VISUAL_OBJECT: deserialize_object(..., True)
DeserializeObject ==
    /\ rt_pc = "encoded"
    /\ \E drawLODS \in BOOLEAN :
          LET r == DeserializeObjectOf(rt_encoded.bytes, 0, drawLODS, TRUE)
          IN rt_decoded' =
                [raised |-> r.raised, pos |-> r.pos,
                 triangles |-> IF r.lods = <<>> THEN <<>>
                               ELSE TrianglesOf(r.lods[1].vertices, r.lods[1].faces)]
    /\ rt_pc' = "decoded"
    /\ UNCHANGED <<rt_mesh, rt_encoded>>
    /\ UNCHANGED nonRtVars

NextRoundTrip == SerializeObject \/ DeserializeObject

\* ------------------------------------------------------------------------
\* apply_skinning (SpecSkin)
\* ------------------------------------------------------------------------
\* Weights are tenths: 10 is 1.0.  A vertex group is named by the place of
\* its bone in bone_names; the group of base_bone_name is BASE_BONE.
BASE_BONE == 0 - 1

\* vg.add(indices, weight, "ADD"): an index outside the mesh is ignored
AddWeights(w, group, indices, weight, n) ==
    LET hit == { <<group, v>> : v \in { i \in indices : i < n } }
    IN [k \in (DOMAIN w) \cup hit |->
          IF k \in hit
          THEN (IF k \in DOMAIN w
                THEN (IF w[k] + weight > 10 THEN 10 ELSE w[k] + weight)
                ELSE weight)
          ELSE w[k]]

\* weighted indices that begin one vertex after the cursor
ReplaceWeightsFromNext(w, group, first, weights, n) ==
    LET valid == { i \in 1..Len(weights) : first + i < n }
        hit   == { <<group, first + i>> : i \in valid }
    IN [k \in (DOMAIN w) \cup hit |->
          IF k \in hit THEN weights[k[2] - first] ELSE w[k]]

\* vg.add(indices, weight, "REPLACE") for each weight value of a bone
ReplaceWeights(w, group, first, weights, n) ==
    LET valid == { i \in 1..Len(weights) : first + i - 1 < n }
        hit   == { <<group, first + i - 1>> : i \in valid }
    IN [k \in (DOMAIN w) \cup hit |->
          IF k \in hit THEN weights[k[2] - first + 1] ELSE w[k]]

\* a cursor that stays where it is after the weighted vertices
KeepCounter(counter, weights) == counter

\* vertex_counter += len(weights)
AdvanceWeighted(counter, weights) == counter + Len(weights)

\* the bindings of the modelled meshes: up to MaxBones bones, each with up
\* to two locked vertices and up to two weighted ones
WeightLists == { <<>>, <<5>>, <<5, 3>> }

BoneBindings == { [num_locked |-> l, weights |-> ws] : l \in 0..2, ws \in WeightLists }

SkinBindings == UNION { [1..n -> BoneBindings] : n \in 1..MaxBones }

\* self.bone_nodes after the joints of the file: decoded bone id -> joint name
SkinBoneNodes ==
    [id \in { j.bone_id : j \in JointVariants } |->
        (CHOOSE j \in JointVariants : j.bone_id = id).name]

RECURSIVE SortedNames(_)
\* [name for _, name in sorted(self.bone_nodes.items())]
SortedNames(nodes) ==
    IF DOMAIN nodes = {} THEN <<>>
    ELSE LET k == CHOOSE k \in DOMAIN nodes : \A j \in DOMAIN nodes : k <= j
         IN <<nodes[k]>> \o SortedNames([x \in (DOMAIN nodes) \ {k} |-> nodes[x]])

\* bone_names[bone_id] if bone_id < len(bone_names) else "unknown_bone_<id>"
BoneNameOf(bone_id, nodes) ==
    LET bone_names == SortedNames(nodes)
    IN IF bone_id < Len(bone_names) THEN bone_names[bone_id + 1]
       ELSE "unknown_bone"

SkinIdle ==
    /\ file_bone_ids = <<>>
    /\ vertex_group_names = <<>>
    /\ skin_pc = "idle"
    /\ total_vertices = 0
    /\ lod_vertex_groups = <<>>
    /\ skin_next = 1
    /\ vertex_counter = 0
    /\ vertex_weights = [k \in {} |-> 0]

SkinInit ==
    /\ skin_pc = "bones"
    /\ total_vertices \in 0..MaxVertices
    /\ lod_vertex_groups \in SkinBindings
    /\ file_bone_ids \in [DOMAIN lod_vertex_groups -> 0..(MaxBones - 1)]
    /\ vertex_group_names = <<>>
    /\ skin_next = 1
    /\ vertex_counter = 0
    /\ vertex_weights = [k \in {} |-> 0]

\* one pass of "for bone_id, num_locked, weights in lod_vertex_groups"
AssignBone ==
    /\ skin_pc = "bones"
    /\ skin_next <= Len(lod_vertex_groups)
    /\ LET bone_id    == skin_next - 1
           num_locked == lod_vertex_groups[skin_next].num_locked
           weights    == lod_vertex_groups[skin_next].weights
           locked     == vertex_counter .. (vertex_counter + num_locked - 1)
           w1         == IF num_locked > 0
                         THEN AddWeights(vertex_weights, bone_id, locked, 10,
                                         total_vertices)
                         ELSE vertex_weights
           c1         == IF num_locked > 0 THEN vertex_counter + num_locked
                         ELSE vertex_counter
       IN /\ vertex_weights' = IF weights # <<>>
                               THEN ReplaceWeights(w1, bone_id, c1, weights,
                                                   total_vertices)
                               ELSE w1
          /\ vertex_counter' = IF weights # <<>> THEN AdvanceWeighted(c1, weights)
                               ELSE c1
    /\ vertex_group_names' =
          Append(vertex_group_names, BoneNameOf(skin_next - 1, SkinBoneNodes))
    /\ skin_next' = skin_next + 1
    /\ skin_pc' = IF skin_next = Len(lod_vertex_groups) THEN "remaining" ELSE "bones"
    /\ UNCHANGED <<total_vertices, lod_vertex_groups, file_bone_ids>>
    /\ UNCHANGED nonSkinVars

\* "Assign any remaining verts to base bone"
AssignRemaining ==
    /\ skin_pc = "remaining"
    /\ LET remaining == vertex_counter .. (total_vertices - 1)
       IN vertex_weights' = IF remaining # {}
                            THEN AddWeights(vertex_weights, BASE_BONE, remaining,
                                            10, total_vertices)
                            ELSE vertex_weights
    /\ skin_pc' = "done"
    /\ UNCHANGED <<total_vertices, lod_vertex_groups, skin_next, vertex_counter,
                   file_bone_ids, vertex_group_names>>
    /\ UNCHANGED nonSkinVars

NextSkin == AssignBone \/ AssignRemaining

\* ------------------------------------------------------------------------
\* Util.write_* / Util.read_* on one value (SpecHelper)
\* ------------------------------------------------------------------------
\* floats of the modelled values: whole numbers of magnitude below 65536
Floats == {0 - 3, 0, 1, 2}

\* read_quat(f, reorder=True): w, x, y, z = unpack; Quaternion((w, x, z, y))
ReadQuat(s, p) ==
    <<ReadF32(s, p), ReadF32(s, p + 4), ReadF32(s, p + 12), ReadF32(s, p + 8)>>

\* a write that packs the components in their own order
WriteQuatPlain(quat) ==
    WriteF32(quat[1]) \o WriteF32(quat[2]) \o WriteF32(quat[3]) \o WriteF32(quat[4])

\* write_quat(f, quat, reorder=True): pack(quat.w, quat.x, quat.z, quat.y)
WriteQuat(quat) ==
    WriteF32(quat[1]) \o WriteF32(quat[2]) \o WriteF32(quat[4]) \o WriteF32(quat[3])

\* the quaternion swap (w, x, y, z) -> (w, x, z, y)
ReorderQuat(q) == <<q[1], q[2], q[4], q[3]>>

\* the longest encoded string write_string accepts
MAX_STRING == 255

\* str.encode("windows-1250", errors="replace") on one character: ASCII and
\* the letters of the code page map to one byte, any other character to "?"
EncodeChar(c) == IF c < 128 THEN c ELSE IF c = 233 THEN 233 ELSE 63

Encode(str) == [i \in DOMAIN str |-> EncodeChar(str[i])]

\* bytes.decode("windows-1250", errors="ignore"): the five bytes the code page
\* leaves undefined are dropped
Undefined1250 == {129, 131, 136, 144, 152}

Decoded(b) == b \notin Undefined1250

Decode(data) == SelectSeq(data, Decoded)

\* a write that puts the length byte on the stream before it tests the length
WriteStringLengthFirst(string) ==
    LET length == Len(string)
    IN IF length > 255
       THEN [raised |-> "ValueError", bytes |-> <<length % 256>>]
       ELSE [raised |-> "", bytes |-> <<length>> \o [i \in 1..length |->
                 IF string[i] < 128 \/ string[i] = 233 THEN string[i] ELSE 63]]

\* Util.write_string(f, string): what it raised and the bytes it wrote
WriteString(string) ==
    LET encoded == Encode(string)
        length  == Len(encoded)
    IN IF length > MAX_STRING
       THEN [raised |-> "ValueError", bytes |-> <<>>]
       ELSE [raised |-> "",
             bytes  |-> WriteU8(length) \o (IF length > 0 THEN encoded ELSE <<>>)]

\* Util.read_string(f) at position p: the text and the position after it
ReadString(s, p) ==
    LET length == ReadU8(s, p)
        last   == IF p + 1 + length <= Len(s) THEN p + 1 + length ELSE Len(s)
    IN IF length = 0 THEN [value |-> <<>>, pos |-> p + 1]
       ELSE [value |-> Decode(SubSeq(s, p + 2, last)), pos |-> last]

\* characters of the modelled strings: "A", e-acute (in the code page) and
\* capital omega (not in the code page)
Chars == {65, 233, 937}

StringLengths == {0, 1, 2, MAX_STRING - 1, MAX_STRING, MAX_STRING + 1, MaxStringLen}

Strings ==
    { [i \in 1..n |-> IF i % 2 = 1 THEN c ELSE d] :
        n \in StringLengths, c \in Chars, d \in Chars }

\* ------------------------------------------------------------------------
\* serialize_material, and deserialize_material on its bytes
\* ------------------------------------------------------------------------
\* struct.pack("<I", n)
WriteU32(n) ==
    <<n % 256, (n \div 256) % 256, (n \div 65536) % 256, (n \div 16777216) % 256>>

\* struct.unpack("<I", f.read(4))
ReadU32(s, p) ==
    s[p + 1] + 256 * s[p + 2] + 65536 * s[p + 3] + 16777216 * s[p + 4]

\* str.upper() on the codes of a..z
Upper(str) == [i \in DOMAIN str |->
                 IF str[i] \in 97..122 THEN str[i] - 32 ELSE str[i]]

\* flags |= bit
OrFlag(flags, bit) == IF HasFlag(flags, bit) THEN flags ELSE flags + bit

\* the node setups of the exported materials: what 'Base Color' is linked to
\* ("none", an image texture "tex", or a MixRGB "mix" with its two inputs
\* linked or not) and what 'Alpha' is linked to (nothing, an image texture,
\* an image whose name holds KEYMASK, or a Math node)
SceneMaterials ==
    { [base |-> b, diffuse_linked |-> dl, env_linked |-> el, alpha |-> a,
       diffuse_name |-> <<98, 120>>, env_name |-> <<101, 110, 118>>,
       alpha_name |-> <<109>>] :
        b \in {"none", "tex", "mix"}, dl \in BOOLEAN, el \in BOOLEAN,
        a \in {"none", "tex", "keymask", "math"} }

\* an alpha texture flagged without the add-effect flag
MaterialFlagsAlphaOnly(mat) ==
    (IF mat.base = "tex" \/ (mat.base = "mix" /\ mat.diffuse_linked) THEN 262144 ELSE 0)
    + (IF mat.base = "mix" /\ mat.env_linked THEN 524288 ELSE 0)
    + (IF mat.alpha = "tex" THEN 1073741824 ELSE 0)

\* the flag word serialize_material builds from the node setup
MaterialFlags(mat) ==
    LET f1 == IF mat.base = "tex" \/ (mat.base = "mix" /\ mat.diffuse_linked)
              THEN OrFlag(0, MTL_DIFFUSETEX) ELSE 0
        f2 == IF mat.base = "mix" /\ mat.env_linked
              THEN OrFlag(f1, MTL_ENVMAP) ELSE f1
    IN CASE mat.alpha = "tex" -> OrFlag(OrFlag(f2, MTL_ADDEFFECT), MTL_ALPHATEX)
         [] mat.alpha \in {"keymask", "math"} /\ HasFlag(f2, MTL_DIFFUSETEX)
                                -> OrFlag(OrFlag(f2, MTL_ADDEFFECT), MTL_COLORKEY)
         [] OTHER -> f2

\* serialize_material: the bytes of one material record
SerializeMaterialOf(mat) ==
    LET flags       == MaterialFlags(mat)
        diffuse_tex == IF HasFlag(flags, MTL_DIFFUSETEX)
                       THEN Upper(mat.diffuse_name) ELSE <<>>
        env_tex     == IF HasFlag(flags, MTL_ENVMAP) THEN Upper(mat.env_name) ELSE <<>>
        alpha_tex   == IF mat.alpha = "tex" THEN Upper(mat.alpha_name) ELSE <<>>
        triple(x)   == WriteF32(x) \o WriteF32(x) \o WriteF32(x)
    IN WriteU32(flags) \o triple(1) \o triple(1) \o triple(0) \o WriteF32(1)
       \o (IF HasFlag(flags, MTL_ENVMAP)
           THEN WriteF32(0) \o WriteString(env_tex).bytes ELSE <<>>)
       \o WriteString(diffuse_tex).bytes
       \o (IF HasFlag(flags, MTL_ALPHATEX) THEN WriteString(alpha_tex).bytes ELSE <<>>)

\* deserialize_material on the bytes at p: the position it leaves the stream
\* at, on the reuse path (hit) and on the path that creates the material
DeserializeMaterialBytes(s, p, hit) ==
    LET flags   == ReadU32(s, p)
        colours == p + 4 + 12 + 12 + 12 + 4
        env     == IF HasFlag(flags, MTL_ENVMAP)
                   THEN ReadString(s, colours + 4).pos ELSE colours
        diffuse == ReadString(s, env).pos
        alpha   == IF HasAlphaTex(flags) THEN ReadString(s, diffuse).pos ELSE diffuse
    IN [value |-> flags,
        pos   |-> IF HasFlag(flags, MTL_ANIMTEXDIFF) THEN alpha + 18 ELSE alpha]

\* ------------------------------------------------------------------------
\* serialize_morph, and deserialize_morph on its bytes
\* ------------------------------------------------------------------------
\* n copies of the byte 0
ZeroBytes(n) == [i \in 1..n |-> 0]

\* the meshes handed to serialize_morph: shape keys beyond the basis or not,
\* the targets and channels their names spell, len(obj.data.vertices), and
\* the num_lods serialize_object returned
MorphMeshes ==
    [shape_keys : BOOLEAN, num_targets : 1..2, num_channels : 1..2,
     num_lods : 1..MaxLods, num_vertices : 0..2]

\* one channel: the vertex count, per vertex and target a position and a
\* normal (every component 0.0), then the flag "no vertex indices"
SerializeMorphChannel(num_targets, num_vertices) ==
    WriteU16(num_vertices)
    \o ZeroBytes(num_vertices * num_targets * (12 + 12))
    \o <<0>>

\* one LOD: its channels, then min_bounds, max_bounds, center and dist
SerializeMorphLod(mesh) ==
    Concat([c \in 1..mesh.num_channels |->
               SerializeMorphChannel(mesh.num_targets, mesh.num_vertices)])
    \o ZeroBytes(12 + 12 + 12 + 4)

SerializeMorphOf(mesh) ==
    IF ~mesh.shape_keys THEN WriteU8(0)
    ELSE WriteU8(mesh.num_targets) \o WriteU8(mesh.num_channels)
         \o WriteU8(mesh.num_lods)
         \o Concat([l \in 1..mesh.num_lods |-> SerializeMorphLod(mesh)])

\* f.tell() after the body of "for _ in range(num_channels)" run once at p
MorphChannelEnd(s, p, num_targets) ==
    LET num_morph_vertices == ReadU16(s, p)
        flag == p + 2 + num_morph_vertices * num_targets * (12 + 12)
    IN  IF num_morph_vertices = 0 THEN p + 2
        ELSE IF ReadU8(s, flag) # 0 THEN flag + 1 + 2 * num_morph_vertices
        ELSE flag + 1

RECURSIVE MorphChannelsEnd(_, _, _, _)
MorphChannelsEnd(s, p, num_targets, channels) ==
    IF channels = 0 THEN p
    ELSE MorphChannelsEnd(s, MorphChannelEnd(s, p, num_targets), num_targets,
                          channels - 1)

\* f.tell() after the body of "for lod_idx in range(num_lods)" run lods times
RECURSIVE MorphLodsEnd(_, _, _, _, _)
MorphLodsEnd(s, p, num_targets, num_channels, lods) ==
    IF lods = 0 THEN p
    ELSE MorphLodsEnd(s, MorphChannelsEnd(s, p, num_targets, num_channels)
                         + 12 * 3 + 4,
                      num_targets, num_channels, lods - 1)

\* deserialize_morph(f, mesh, num_vertices_per_lod): the target count it read
\* and where it left the stream; object_lods is len(num_vertices_per_lod)
DeserializeMorphBytes(s, p, object_lods) ==
    LET num_targets == ReadU8(s, p)
        num_channels == ReadU8(s, p + 1)
        num_lods == IF ReadU8(s, p + 2) # object_lods
                    THEN IF ReadU8(s, p + 2) < object_lods
                         THEN ReadU8(s, p + 2) ELSE object_lods
                    ELSE ReadU8(s, p + 2)
    IN  IF num_targets = 0 THEN [value |-> 0, pos |-> p + 1]
        ELSE [value |-> num_targets,
              pos |-> MorphLodsEnd(s, p + 3, num_targets, num_channels,
                                   num_lods)]

\* ------------------------------------------------------------------------
\* the header rotation of a frame, from serialize_frame to the scene node
\* ------------------------------------------------------------------------
\* the frame types whose decoder puts the header transform on its scene node
TransformedFrames ==
    {FRAME_VISUAL, FRAME_DUMMY, FRAME_TARGET, FRAME_SECTOR, FRAME_OCCLUDER}

\* rotation_quaternion of the node, rot being read_quat(f, reorder=True):
\* make_mesh sets matrix_local from rot, deserialize_dummy and
\* deserialize_occluder assign rot, deserialize_target and deserialize_sector
\* assign (rot[0], rot[1], rot[3], rot[2])
NodeRotation(frame_type, rot) ==
    IF frame_type \in {FRAME_TARGET, FRAME_SECTOR}
    THEN <<rot[1], rot[2], rot[4], rot[3]>>
    ELSE rot

\* the four floats of the header in the order the file holds them
StoredQuat(s, p) ==
    <<ReadF32(s, p), ReadF32(s, p + 4), ReadF32(s, p + 8), ReadF32(s, p + 12)>>

Vectors == Floats \X Floats \X Floats

Quats == Floats \X Floats \X Floats \X Floats

HelperValues ==
    { [kind |-> "vector3", value |-> v] : v \in Vectors }
    \cup { [kind |-> "quat", value |-> q] : q \in Quats }
    \cup { [kind |-> "string", value |-> str] : str \in Strings }
    \cup { [kind |-> "material", value |-> mat] : mat \in SceneMaterials }
    \cup { [kind |-> "morph", value |-> mesh] : mesh \in MorphMeshes }
    \cup { [kind |-> "rotation", value |-> [frame_type |-> ft, rot |-> q]] :
               ft \in TransformedFrames, q \in Quats }

NotRead == [value |-> <<>>, pos |-> 0]

HelperIdle ==
    /\ h_pc = "idle"
    /\ h_value = [kind |-> "none", value |-> <<>>]
    /\ h_stream = <<>>
    /\ h_read = NotRead

HelperInit ==
    /\ h_pc = "value"
    /\ h_value \in HelperValues
    /\ h_stream = <<>>
    /\ h_read = NotRead

\* Util.write_vector3(f, vec, reorder=True)
WriteVector3Call ==
    /\ h_pc = "value" /\ h_value.kind = "vector3"
    /\ h_stream' = WriteVector3(h_value.value)
    /\ h_pc' = "written"
    /\ UNCHANGED <<h_value, h_read>>
    /\ UNCHANGED nonHelperVars

\* Util.read_vector3(f, reorder=True) on the stream rewound to its start
ReadVector3Call ==
    /\ h_pc = "written" /\ h_value.kind = "vector3"
    /\ Readable(h_stream, 0, 12)
    /\ h_read' = [value |-> ReadVector3(h_stream, 0), pos |-> 12]
    /\ h_pc' = "read"
    /\ UNCHANGED <<h_value, h_stream>>
    /\ UNCHANGED nonHelperVars

\* Util.write_quat(f, quat, reorder=True)
WriteQuatCall ==
    /\ h_pc = "value" /\ h_value.kind = "quat"
    /\ h_stream' = WriteQuat(h_value.value)
    /\ h_pc' = "written"
    /\ UNCHANGED <<h_value, h_read>>
    /\ UNCHANGED nonHelperVars

\* Util.read_quat(f, reorder=True) on the stream rewound to its start
ReadQuatCall ==
    /\ h_pc = "written" /\ h_value.kind = "quat"
    /\ Readable(h_stream, 0, 16)
    /\ h_read' = [value |-> ReadQuat(h_stream, 0), pos |-> 16]
    /\ h_pc' = "read"
    /\ UNCHANGED <<h_value, h_stream>>
    /\ UNCHANGED nonHelperVars

\* Util.write_string(f, string) on an empty stream
WriteStringCall ==
    /\ h_pc = "value" /\ h_value.kind = "string"
    /\ LET w == WriteString(h_value.value)
       IN /\ h_stream' = w.bytes
          /\ h_pc' = IF w.raised = "" THEN "written" ELSE "raised"
    /\ UNCHANGED <<h_value, h_read>>
    /\ UNCHANGED nonHelperVars

\* Util.read_string(f) on the stream rewound to its start
ReadStringCall ==
    /\ h_pc = "written" /\ h_value.kind = "string"
    /\ Readable(h_stream, 0, 1)
    /\ h_read' = ReadString(h_stream, 0)
    /\ h_pc' = "read"
    /\ UNCHANGED <<h_value, h_stream>>
    /\ UNCHANGED nonHelperVars

\* serialize_material(f, mat, mat_index) on an empty stream
SerializeMaterialCall ==
    /\ h_pc = "value" /\ h_value.kind = "material"
    /\ h_stream' = SerializeMaterialOf(h_value.value)
    /\ h_pc' = "written"
    /\ UNCHANGED <<h_value, h_read>>
    /\ UNCHANGED nonHelperVars

\* deserialize_material(f) on the stream rewound to its start, the material
\* name known to bpy.data.materials or not
DeserializeMaterialCall ==
    /\ h_pc = "written" /\ h_value.kind = "material"
    /\ \E hit \in BOOLEAN : h_read' = DeserializeMaterialBytes(h_stream, 0, hit)
    /\ h_pc' = "read"
    /\ UNCHANGED <<h_value, h_stream>>
    /\ UNCHANGED nonHelperVars

\* serialize_morph(f, obj, num_lods)
SerializeMorphCall ==
    /\ h_pc = "value" /\ h_value.kind = "morph"
    /\ h_stream' = SerializeMorphOf(h_value.value)
    /\ h_pc' = "written"
    /\ UNCHANGED <<h_value, h_read>>
    /\ UNCHANGED nonHelperVars

\* deserialize_morph(f, mesh, verts_per_lod) on the stream rewound to its
\* start, the object decoded with the LODs the exporter wrote
DeserializeMorphCall ==
    /\ h_pc = "written" /\ h_value.kind = "morph"
    /\ h_read' = DeserializeMorphBytes(h_stream, 0, h_value.value.num_lods)
    /\ h_pc' = "read"
    /\ UNCHANGED <<h_value, h_stream>>
    /\ UNCHANGED nonHelperVars

\* serialize_frame: Util.write_quat(f, rot, reorder=True) of the header
WriteFrameRotation ==
    /\ h_pc = "value" /\ h_value.kind = "rotation"
    /\ h_stream' = WriteQuat(h_value.value.rot)
    /\ h_pc' = "written"
    /\ UNCHANGED <<h_value, h_read>>
    /\ UNCHANGED nonHelperVars

\* deserialize_frame: rot = Util.read_quat(f, reorder=True), then the decoder
\* of the frame type puts the rotation on the scene node
ReadFrameRotation ==
    /\ h_pc = "written" /\ h_value.kind = "rotation"
    /\ Readable(h_stream, 0, 16)
    /\ h_read' = [value |-> NodeRotation(h_value.value.frame_type,
                                        ReadQuat(h_stream, 0)),
                  pos |-> 16]
    /\ h_pc' = "read"
    /\ UNCHANGED <<h_value, h_stream>>
    /\ UNCHANGED nonHelperVars

NextHelper ==
    \/ WriteFrameRotation
    \/ ReadFrameRotation
    \/ SerializeMorphCall
    \/ DeserializeMorphCall
    \/ SerializeMaterialCall
    \/ DeserializeMaterialCall
    \/ WriteVector3Call
    \/ ReadVector3Call
    \/ WriteQuatCall
    \/ ReadQuatCall
    \/ WriteStringCall
    \/ ReadStringCall

\* ------------------------------------------------------------------------
\* import_file
\* ------------------------------------------------------------------------
ImportInit ==
    /\ pc = "header"
    /\ frame_count = 0
    /\ file = <<>>
    /\ returned = <<>>
    /\ empties = EmptyMap
    /\ magic = ""
    /\ version = 0
    /\ materials = 0
    /\ frame_index = 1
    /\ frames = <<>>
    /\ frames_map = EmptyMap
    /\ frame_types = EmptyMap
    /\ bones_map = EmptyMap
    /\ bone_nodes = EmptyMap
    /\ joints = <<>>
    /\ armature = FALSE
    /\ armature_bones = {}
    /\ armature_scale_factor = 0
    /\ parenting_info = <<>>
    /\ skinned_meshes = <<>>
    /\ skinned = {}
    /\ objects = EmptyMap
    /\ parent_ops = <<>>
    /\ result = "running"


\* the magic of a 4DS file, and the other four-byte strings a file may start with
MAGIC == "4DS0"

Magics == {MAGIC, "RIFF", "4DS"}

\* import_file up to the GUID: where the decode goes after the magic and the
\* version were compared
HeaderOutcomeAnyVersion(m, v) ==
    IF m # "4DS0" THEN "aborted" ELSE "materials"

HeaderOutcome(m, v) ==
    IF m # MAGIC THEN "aborted"
    ELSE IF v # VERSION_MAFIA THEN "aborted"
    ELSE "materials"

\* a loop exit that goes to the parenting pass at once
PhaseAfterFrameNoArmature(ok, decoded, count) ==
    IF ~ok \/ decoded = count THEN "parenting" ELSE "frames"

\* "for _ in range(frame_count): if not self.deserialize_frame(...): break":
\* where import_file is after `decoded` frames, the last one returning ok
PhaseAfterFrame(ok, decoded, count) ==
    IF ~ok \/ decoded = count THEN "armature" ELSE "frames"

\* magic and version check, GUID skip
ReadHeader ==
    /\ pc = "header"
    /\ \E m \in Magics, v \in {VERSION_MAFIA, VERSION_HD2} :
          /\ magic' = m
          /\ version' = IF m # MAGIC THEN version ELSE v
          /\ pc' = HeaderOutcome(m, v)
          /\ result' = IF HeaderOutcome(m, v) = "aborted" THEN "None" ELSE result
    /\ UNCHANGED <<frame_count, file, returned, empties, materials, frame_index,
                   frames, frames_map, frame_types, bones_map, bone_nodes, joints,
                   armature, armature_bones, armature_scale_factor,
                   parenting_info, skinned_meshes, skinned, objects, parent_ops>>
    /\ UNCHANGED nonImportVars

\* the material table, then frame_count
ReadMaterialTable ==
    /\ pc = "materials"
    /\ \E n \in 0..1, fc \in 0..MaxFrames :
          /\ materials' = n
          /\ frame_count' = fc
          /\ pc' = PhaseAfterFrame(TRUE, 0, fc)
    /\ UNCHANGED <<file, returned, empties, magic, version, frame_index, frames, frames_map,
                   frame_types, bones_map, bone_nodes, joints, armature,
                   armature_bones, armature_scale_factor, parenting_info,
                   skinned_meshes, skinned, objects, parent_ops, result>>
    /\ UNCHANGED nonImportVars

\* one iteration of the frame loop: deserialize_frame on the next record
DeserializeFrame ==
    /\ pc = "frames"
    /\ Len(file) < frame_count
    /\ \E fr \in FrameRecords :
        LET idx == frame_index
            id  == Len(file) + 1
            ok  == FrameSupported(fr)
        IN
        /\ file' = Append(file, fr)
        /\ returned' = Append(returned, ok)
        /\ frame_types' = Put(frame_types, idx, fr.frame_type)
        /\ parenting_info' = QueueParent(parenting_info, idx, fr.parent_id)
        /\ frame_index' = IF ConsumesIndex(fr, armature) THEN idx + 1 ELSE idx
        /\ frames' = IF CreatesObject(fr) THEN Append(frames, id) ELSE frames
        /\ objects' = IF CreatesObject(fr) THEN Put(objects, id, NewObject)
                      ELSE objects
        /\ empties' = IF fr.frame_type = FRAME_DUMMY
                      THEN Put(empties, id, DeserializeDummyOf(fr)) ELSE empties
        /\ frames_map' =
              IF CreatesObject(fr) THEN Put(frames_map, idx, ObjectEntry(id))
              ELSE IF JointRegistered(fr, armature)
                   THEN Put(frames_map, idx, JointEntry(fr.name))
                   ELSE frames_map
        /\ bones_map' =
              IF IsSkinnedMesh(fr) THEN Put(bones_map, idx, MeshName)
              ELSE IF JointRegistered(fr, armature)
                   THEN Put(bones_map, idx, fr.name)
                   ELSE bones_map
        /\ bone_nodes' = IF JointRegistered(fr, armature)
                         THEN Put(bone_nodes, fr.bone_id, fr.name)
                         ELSE bone_nodes
        /\ joints' = IF JointRegistered(fr, armature)
                     THEN Append(joints, [name |-> fr.name, scale |-> fr.scale,
                                          parent_id |-> fr.parent_id,
                                          bone_id |-> fr.bone_id])
                     ELSE joints
        /\ armature' = (armature \/ IsSkinnedMesh(fr))
        /\ armature_bones' = IF IsSkinnedMesh(fr) /\ ~armature
                             THEN {MeshName} ELSE armature_bones
        /\ skinned_meshes' = IF IsSkinnedMesh(fr)
                             THEN Append(skinned_meshes, id) ELSE skinned_meshes
        /\ pc' = PhaseAfterFrame(ok, Len(file) + 1, frame_count)
    /\ UNCHANGED <<frame_count, magic, version, materials, armature_scale_factor,
                   skinned, parent_ops, result>>
    /\ UNCHANGED nonImportVars

\* "if self.armature and self.joints": build_armature, then apply_skinning
\* on every skinned mesh; an exception of build_armature leaves import_file
BuildArmatureAndSkin ==
    /\ pc = "armature"
    /\ IF armature /\ joints # <<>>
       THEN LET b == BuildArmature(joints, frames_map, armature_scale_factor)
            IN IF b.raised
               THEN /\ pc' = "raised"
                    /\ result' = "NotImplementedError"
                    /\ armature_scale_factor' = b.scale_factor
                    /\ UNCHANGED <<armature_bones, skinned>>
               ELSE /\ pc' = "parenting"
                    /\ armature_bones' = b.bone_map
                    /\ armature_scale_factor' = b.scale_factor
                    /\ skinned' = {skinned_meshes[i] : i \in DOMAIN skinned_meshes}
                    /\ result' = result
       ELSE /\ pc' = "parenting"
            /\ UNCHANGED <<armature_bones, armature_scale_factor, skinned, result>>
    /\ UNCHANGED <<frame_count, file, returned, empties, magic, version, materials, frame_index,
                   frames, frames_map, frame_types, bones_map, bone_nodes,
                   joints, armature, parenting_info, skinned_meshes, objects,
                   parent_ops>>
    /\ UNCHANGED nonImportVars

\* the same step of an importer whose build_armature is the override of
\* Mafia_Formats / Scene2Importer: NotImplementedError with "Non-uniform
\* armature scaling" in its text is caught, build_armature returns, and
\* import_file goes on to the apply_skinning loop
BuildArmatureAndSkinWrapped ==
    /\ pc = "armature"
    /\ IF armature /\ joints # <<>>
       THEN LET b == BuildArmature(joints, frames_map, armature_scale_factor)
            IN /\ armature_bones' = IF b.raised THEN armature_bones ELSE b.bone_map
               /\ armature_scale_factor' = b.scale_factor
               /\ skinned' = {skinned_meshes[i] : i \in DOMAIN skinned_meshes}
       ELSE UNCHANGED <<armature_bones, armature_scale_factor, skinned>>
    /\ pc' = "parenting"
    /\ UNCHANGED <<frame_count, file, returned, empties, magic, version, materials, frame_index,
                   frames, frames_map, frame_types, bones_map, bone_nodes,
                   joints, armature, parenting_info, skinned_meshes, objects,
                   parent_ops, result>>
    /\ UNCHANGED nonImportVars

\* self.apply_deferred_parenting()
ApplyDeferredParenting ==
    /\ pc = "parenting"
    /\ LET r == ApplyDeferredParentingOf(parenting_info, objects, frames_map,
                                         frame_types, bones_map, armature,
                                         armature_bones)
       IN /\ objects' = r.objs
          /\ parent_ops' = r.ops
    /\ pc' = "animation"
    /\ UNCHANGED <<frame_count, file, returned, empties, magic, version, materials, frame_index,
                   frames, frames_map, frame_types, bones_map, bone_nodes,
                   joints, armature, armature_bones, armature_scale_factor,
                   parenting_info, skinned_meshes, skinned, result>>
    /\ UNCHANGED nonImportVars

\* animation = Util.read_uint_8(f); return frames.  struct.unpack raises
\* struct.error when f.read(1) returns no byte.
ReadAnimationFlag ==
    /\ pc = "animation"
    /\ \E bytes_left \in 0..1 :
          IF bytes_left = 0
          THEN pc' = "raised" /\ result' = "struct.error"
          ELSE pc' = "done" /\ result' = "frames"
    /\ UNCHANGED <<frame_count, file, returned, empties, magic, version, materials, frame_index,
                   frames, frames_map, frame_types, bones_map, bone_nodes,
                   joints, armature, armature_bones, armature_scale_factor,
                   parenting_info, skinned_meshes, skinned, objects, parent_ops>>
    /\ UNCHANGED nonImportVars

\* ------------------------------------------------------------------------
\* The4DSExporter.serialize_file on scene nodes the importer created
\* ------------------------------------------------------------------------
\* what deserialize_frame leaves on the scene node of one decoded frame:
\* blank   - every material slot of the mesh is blank (should_be_wireframe)
\* portals - the sector has at least one portal
\* targets - num_targets of the morph payload
DecodedNode(ft, vt, blank, portals, targets) ==
    LET mesh == [type |-> "MESH", armature_modifier |-> FALSE,
                 num_portals |-> FALSE, plane_child |-> FALSE,
                 display_type |-> "TEXTURED", key_blocks |-> 0,
                 empty_display_type |-> "NONE"]
        keys == IF targets = 0 THEN 0 ELSE 1 + targets
    IN  IF ft = FRAME_VISUAL /\ vt \in {VISUAL_OBJECT, VISUAL_LITOBJECT}
        THEN [mesh EXCEPT !.display_type =
                              IF blank THEN "WIRE" ELSE "TEXTURED"]
        ELSE IF ft = FRAME_VISUAL /\ vt = VISUAL_SINGLEMESH
        THEN [mesh EXCEPT !.armature_modifier = TRUE]
        ELSE IF ft = FRAME_VISUAL /\ vt = VISUAL_BILLBOARD
        THEN mesh
        ELSE IF ft = FRAME_VISUAL /\ vt = VISUAL_SINGLEMORPH
        THEN [mesh EXCEPT !.armature_modifier = TRUE, !.key_blocks = keys]
        ELSE IF ft = FRAME_VISUAL /\ vt = VISUAL_MORPH
        THEN [mesh EXCEPT !.key_blocks = keys]
        ELSE IF ft = FRAME_SECTOR
        THEN [mesh EXCEPT !.num_portals = TRUE, !.plane_child = portals,
                          !.display_type = "WIRE"]
        ELSE IF ft = FRAME_OCCLUDER
        THEN [mesh EXCEPT !.display_type = "WIRE"]
        ELSE IF ft = FRAME_DUMMY
        THEN [mesh EXCEPT !.type = "EMPTY", !.empty_display_type = "CUBE"]
        ELSE [mesh EXCEPT !.type = "EMPTY",
                          !.empty_display_type = "PLAIN_AXES"]

\* the frames deserialize_frame makes a scene object of
DecodedFrames ==
    {[frame_type |-> FRAME_VISUAL, visual_type |-> vt, blank |-> b,
      portals |-> FALSE, targets |-> 0] :
        vt \in {VISUAL_OBJECT, VISUAL_LITOBJECT}, b \in BOOLEAN}
    \cup {[frame_type |-> FRAME_VISUAL, visual_type |-> vt, blank |-> FALSE,
           portals |-> FALSE, targets |-> 0] :
        vt \in {VISUAL_SINGLEMESH, VISUAL_BILLBOARD}}
    \cup {[frame_type |-> FRAME_VISUAL, visual_type |-> vt, blank |-> FALSE,
           portals |-> FALSE, targets |-> 1] :
        vt \in {VISUAL_SINGLEMORPH, VISUAL_MORPH}}
    \cup {[frame_type |-> FRAME_SECTOR, visual_type |-> 0, blank |-> FALSE,
           portals |-> p, targets |-> 0] : p \in BOOLEAN}
    \cup {[frame_type |-> ft, visual_type |-> 0, blank |-> FALSE,
           portals |-> FALSE, targets |-> 0] :
        ft \in {FRAME_DUMMY, FRAME_TARGET, FRAME_OCCLUDER}}

\* the frame type determination of serialize_frame: <<frame_type, visual_type>>
Classify(node) ==
    IF node.type = "MESH"
    THEN IF node.armature_modifier
         THEN <<FRAME_VISUAL, IF node.key_blocks > 1 THEN VISUAL_SINGLEMORPH
                              ELSE VISUAL_SINGLEMESH>>
         ELSE IF node.num_portals \/ node.plane_child
         THEN <<FRAME_SECTOR, VISUAL_OBJECT>>
         ELSE IF node.display_type = "WIRE" /\ ~node.num_portals
         THEN <<FRAME_OCCLUDER, VISUAL_OBJECT>>
         ELSE IF node.key_blocks > 1
         THEN <<FRAME_VISUAL, VISUAL_MORPH>>
         ELSE <<FRAME_VISUAL, VISUAL_OBJECT>>
    ELSE IF node.empty_display_type = "CUBE"
         THEN <<FRAME_DUMMY, VISUAL_OBJECT>>
         ELSE IF node.empty_display_type = "PLAIN_AXES"
         THEN <<FRAME_TARGET, VISUAL_OBJECT>>
         ELSE <<FRAME_VISUAL, VISUAL_OBJECT>>

\* dict.get(key, default)
Get(d, k, default) == IF k \in DOMAIN d THEN d[k] ELSE default

\* the key of an object, of an armature and of no object (obj.parent is None)
ObjKey(i) == <<"object", i>>
ArmKey(k) == <<"armature", k>>
NoParent  == <<"none", 0>>

\* bone.name of bone i of armature k
BoneName(k, i) == <<k, i>>

\* self.objects: every object has no parent or another object as parent,
\* and no object is its own ancestor
Selections ==
    UNION {{s \in [1..n -> [from : DecodedFrames, parent : 0..n]] :
               \A i \in 1..n :
                   /\ s[i].parent # i
                   /\ s[i].parent # 0 => s[s[i].parent].parent # i} :
           n \in 0..MaxObjects}

ArmatureLists ==
    UNION {[1..n -> 1..MaxBones] : n \in 0..MaxArmatures}

ExportIdle ==
    /\ e_pc = "idle"
    /\ e_objects = <<>>
    /\ e_armatures = <<>>
    /\ e_next = 0
    /\ e_arm = 0
    /\ e_frame_index = 0
    /\ e_frames_map = <<>>
    /\ e_joint_map = <<>>
    /\ e_written = <<>>

\* The4DSExporter.__init__ and the selection serialize_file collects
ExportInit ==
    /\ e_pc = "frames"
    /\ e_objects \in Selections
    /\ e_armatures \in ArmatureLists
    /\ e_next = 1
    /\ e_arm = 1
    /\ e_frame_index = 1
    /\ e_frames_map = <<>>
    /\ e_joint_map = <<>>
    /\ e_written = <<>>

\* parent_id = self.frames_map.get(obj.parent, 0)
ParentIdLookup(map, obj) ==
    Get(map, IF obj.parent = 0 THEN NoParent ELSE ObjKey(obj.parent), 0)

\* one pass of "for obj in self.objects: self.serialize_frame(f, obj)"
SerializeFrame ==
    /\ e_pc = "frames"
    /\ e_next <= Len(e_objects)
    /\ LET obj == e_objects[e_next]
           node == DecodedNode(obj.from.frame_type, obj.from.visual_type,
                               obj.from.blank, obj.from.portals,
                               obj.from.targets)
           kind == Classify(node)
           parent_id == ParentIdLookup(e_frames_map, obj)
       IN  /\ e_frames_map' = Put(e_frames_map, ObjKey(e_next), e_frame_index)
           /\ e_frame_index' = e_frame_index + 1
           /\ e_written' = Append(e_written,
                  [frame_type |-> kind[1], visual_type |-> kind[2],
                   parent_id |-> parent_id, index |-> e_frame_index,
                   object |-> e_next, bone |-> 0])
    /\ e_next' = e_next + 1
    /\ UNCHANGED <<e_pc, e_objects, e_armatures, e_arm, e_joint_map>>
    /\ UNCHANGED nonExportVars

\* joint_map after the first loop of serialize_joints on armature k
RECURSIVE JointMapAfter(_, _, _, _)
JointMapAfter(map, k, bones, index) ==
    IF bones = 0 THEN map
    ELSE Put(JointMapAfter(map, k, bones - 1, index),
             BoneName(k, bones), index + bones - 1)

\* the joint records the second loop of serialize_joints writes; bone i > 1
\* has bone i - 1 as its parent
JointRecords(map, fmap, k, bones) ==
    [i \in 1..bones |->
        [frame_type |-> FRAME_JOINT, visual_type |-> 0,
         parent_id |-> IF i = 1 THEN 0
                       ELSE Get(map, BoneName(k, i - 1),
                                Get(fmap, ArmKey(k), 0)),
         index |-> map[BoneName(k, i)],
         object |-> 0, bone |-> i]]

\* self.frame_index when serialize_joints returns: the first loop advanced
\* it by one per bone, "self.frame_index = originalIndex" put it back
FrameIndexAfterJoints(originalIndex, bones) == originalIndex

\* one pass of "for armature in armatures": frames_map entry, serialize_joints
SerializeJoints ==
    /\ e_pc = "frames"
    /\ e_next > Len(e_objects)
    /\ e_arm <= Len(e_armatures)
    /\ LET bones == e_armatures[e_arm]
           fmap == Put(e_frames_map, ArmKey(e_arm), e_frame_index)
           jmap == JointMapAfter(e_joint_map, e_arm, bones, e_frame_index)
       IN  /\ e_frames_map' = fmap
           /\ e_joint_map' = jmap
           /\ e_frame_index' = FrameIndexAfterJoints(e_frame_index, bones)
           /\ e_written' = e_written \o JointRecords(jmap, fmap, e_arm, bones)
    /\ e_arm' = e_arm + 1
    /\ UNCHANGED <<e_pc, e_objects, e_armatures, e_next>>
    /\ UNCHANGED nonExportVars

\* f.write(struct.pack("<?", False)) at the end of serialize_file
WriteAnimationFlag ==
    /\ e_pc = "frames"
    /\ e_next > Len(e_objects)
    /\ e_arm > Len(e_armatures)
    /\ e_pc' = "done"
    /\ UNCHANGED <<e_objects, e_armatures, e_next, e_arm, e_frame_index,
                   e_frames_map, e_joint_map, e_written>>
    /\ UNCHANGED nonExportVars

NextExport ==
    \/ SerializeFrame
    \/ SerializeJoints
    \/ WriteAnimationFlag

\* ------------------------------------------------------------------------
\* The timer-driven batch import of Mafia_Formats/import_mafia.py
\* ------------------------------------------------------------------------
Models == {"a.4ds", "b.4ds"}

\* a task of the queue: a model instance, or a task that decodes no file
\* (a light, a task without model, a task whose type the filters exclude)
Tasks ==
    {[kind |-> "model", model |-> m] : m \in Models}
    \cup {[kind |-> "other", model |-> ""]}

TaskLists == UNION {[1..n -> Tasks] : n \in 1..MaxTasks}

\* what the model file of a name does when import_model comes to decode it:
\* _find_mesh finds no file ("missing"), import_file returns None on a bad
\* header ("none"), returns an empty list ("empty"), returns the decoded
\* objects ("objects"), or raises ("raises": struct.error on a file that
\* ends early)
FileOutcomes == {"missing", "none", "empty", "objects", "raises"}

\* import_model that never stores a decoded model
ImportModelNoStore(task, cache, files) ==
    IF task.kind # "model" THEN [how |-> "skipped", cache |-> cache]
    ELSE IF task.model \in cache THEN [how |-> "cached", cache |-> cache]
    ELSE IF files[task.model] = "objects"
    THEN [how |-> "decoded", cache |-> cache]
    ELSE [how |-> files[task.model], cache |-> cache]

\* import_model(task, collection): how the task was served, and the keys of
\* import_model._cache afterwards
ImportModelOf(task, cache, files) ==
    IF task.kind # "model" THEN [how |-> "skipped", cache |-> cache]
    ELSE IF task.model \in cache THEN [how |-> "cached", cache |-> cache]
    ELSE IF files[task.model] = "objects"
    THEN [how |-> "decoded", cache |-> cache \cup {task.model}]
    ELSE [how |-> files[task.model], cache |-> cache]

\* one pass of the loop of _step_import: pop the task, serve it, report
StepTask(st, total, files) ==
    LET task == Head(st.queue)
        rest == Tail(st.queue)
        done == total - Len(rest)
        r == ImportModelOf(task, st.cache, files)
        entry == [kind |-> task.kind, model |-> task.model, how |-> r.how]
    IN  IF r.how = "raises"
        THEN [st EXCEPT !.queue = rest, !.log = Append(@, entry),
                        !.raised = TRUE]
        ELSE [st EXCEPT !.queue = rest, !.cache = r.cache,
                        !.log = Append(@, entry),
                        !.progress = Append(@, done)]

\* "for _ in range(min(batch_size, len(self.queue)))", left by an exception
RECURSIVE RunBatch(_, _, _, _)
RunBatch(st, n, total, files) ==
    IF n = 0 \/ st.raised THEN st
    ELSE RunBatch(StepTask(st, total, files), n - 1, total, files)

BatchIdle ==
    /\ b_pc = "idle"
    /\ b_tasks = <<>>
    /\ b_files = <<>>
    /\ b_batch_size = 0
    /\ b_session = 0
    /\ b_queue = <<>>
    /\ b_total = 0
    /\ b_cache = {}
    /\ b_log = <<>>
    /\ b_progress = <<>>
    /\ b_ended = 0

\* the scene file and the model files on disk, the batch_size preference;
\* import_model._cache does not exist yet
BatchInit ==
    /\ b_pc = "parsed"
    /\ b_tasks \in TaskLists
    /\ b_files \in [Models -> FileOutcomes]
    /\ b_batch_size \in 1..MaxBatch
    /\ b_session = 0
    /\ b_queue = <<>>
    /\ b_total = 0
    /\ b_cache = {}
    /\ b_log = <<>>
    /\ b_progress = <<>>
    /\ b_ended = 0

\* the importer's run() and start_import_timer: the queue is parsed anew,
\* the model cache is reset, the timer is registered
StartImportTimer ==
    /\ b_pc \in {"parsed", "ended", "crashed"}
    /\ b_session < MaxSessions
    /\ b_session' = b_session + 1
    /\ b_queue' = b_tasks
    /\ b_total' = Len(b_tasks)
    /\ b_cache' = {}
    /\ b_log' = <<>>
    /\ b_progress' = <<>>
    /\ b_ended' = 0
    /\ b_pc' = "waiting"
    /\ UNCHANGED <<b_tasks, b_files, b_batch_size>>
    /\ UNCHANGED nonBatchVars

\* one call of timer_callback: _step_import.  The timer is dropped when the
\* callback returns None or raises, and called again when it returns 0.01
StepImport ==
    /\ b_pc = "waiting"
    /\ IF b_queue = <<>>
       THEN /\ b_ended' = b_ended + 1
            /\ b_pc' = "ended"
            /\ UNCHANGED <<b_queue, b_cache, b_log, b_progress>>
       ELSE LET n == IF b_batch_size < Len(b_queue) THEN b_batch_size
                     ELSE Len(b_queue)
                st == RunBatch([queue |-> b_queue, cache |-> b_cache,
                                log |-> b_log, progress |-> b_progress,
                                raised |-> FALSE], n, b_total, b_files)
            IN  /\ b_queue' = st.queue
                /\ b_cache' = st.cache
                /\ b_log' = st.log
                /\ b_progress' = st.progress
                /\ b_pc' = IF st.raised THEN "crashed" ELSE "waiting"
                /\ UNCHANGED b_ended
    /\ UNCHANGED <<b_tasks, b_files, b_batch_size, b_session, b_total>>
    /\ UNCHANGED nonBatchVars

NextBatch ==
    \/ StartImportTimer
    \/ StepImport

\* the state after construction of every modelled component
Init == ImportInit /\ MatInit /\ LodIdle /\ RtIdle /\ SkinIdle /\ HelperIdle
    /\ ExportIdle /\ BatchIdle

Next ==
    \/ ReadHeader
    \/ ReadMaterialTable
    \/ DeserializeFrame
    \/ BuildArmatureAndSkin
    \/ ApplyDeferredParenting
    \/ ReadAnimationFlag

Spec == Init /\ [][Next]_vars

\* import_file of the subclass that overrides build_armature
NextWrapped ==
    \/ ReadHeader
    \/ ReadMaterialTable
    \/ DeserializeFrame
    \/ BuildArmatureAndSkinWrapped
    \/ ApplyDeferredParenting
    \/ ReadAnimationFlag

SpecWrapped == Init /\ [][NextWrapped]_vars

\* the material table alone: repeated deserialize_material calls
SpecMaterial == Init /\ [][DeserializeMaterial]_vars

\* the material tables of the files decoded one after another in one process
SpecFiles == Init /\ [][NextFiles]_vars

\* one mesh payload under both settings of the LOD import option
InitLod == ImportInit /\ MatInit /\ LodInit /\ RtIdle /\ SkinIdle /\ HelperIdle
    /\ ExportIdle /\ BatchIdle

SpecLod == InitLod /\ [][NextLod]_vars

\* one mesh written by the exporter and read back by the importer
InitRoundTrip == ImportInit /\ MatInit /\ LodIdle /\ RtInit /\ SkinIdle /\ HelperIdle
    /\ ExportIdle /\ BatchIdle

SpecRoundTrip == InitRoundTrip /\ [][NextRoundTrip]_vars

\* apply_skinning on one mesh and one skin binding
InitSkin == ImportInit /\ MatInit /\ LodIdle /\ RtIdle /\ SkinInit /\ HelperIdle
    /\ ExportIdle /\ BatchIdle

SpecSkin == InitSkin /\ [][NextSkin]_vars

\* one value through a write call and the matching read call
InitHelper ==
    ImportInit /\ MatInit /\ LodIdle /\ RtIdle /\ SkinIdle /\ HelperInit
    /\ ExportIdle /\ BatchIdle

SpecHelper == InitHelper /\ [][NextHelper]_vars

\* serialize_file on one selection of decoded scene nodes and armatures
InitExport ==
    ImportInit /\ MatInit /\ LodIdle /\ RtIdle /\ SkinIdle /\ HelperIdle
    /\ ExportInit /\ BatchIdle

SpecExport == InitExport /\ [][NextExport]_vars

\* import sessions on one scene file, the timer callback called at will
InitBatch ==
    ImportInit /\ MatInit /\ LodIdle /\ RtIdle /\ SkinIdle /\ HelperIdle
    /\ ExportIdle /\ BatchInit

SpecBatch == InitBatch /\ [][NextBatch]_vars

\* the same sessions under the timer of the host: a registered callback is
\* called again and again until it returns None or raises
SpecBatchFair == InitBatch /\ [][NextBatch]_vars /\ WF_vars(StepImport)

\* ------------------------------------------------------------------------
\* Vocabulary of the properties of import_file
\* ------------------------------------------------------------------------
\* deserialize_frame calls that returned True so far
OkCount == Cardinality({i \in DOMAIN returned : returned[i]})

\* apply_deferred_parenting has run
AfterParenting == pc = "animation" \/ result \in {"frames", "struct.error"}

\* import_file has ended, by return or by an exception
Ended == pc \in {"done", "raised"}

\* the frame index under which the object of the c-th record was registered
IndexOf(c) == CHOOSE idx \in DOMAIN frames_map : frames_map[idx] = ObjectEntry(c)

\* C1: for a file with frame_count = n whose first unsupported frame is the
\* k-th, import_file stops the loop at that frame and returns exactly the
\* k-1 frames decoded before it, not an error; with no unsupported frame the
\* loop runs exactly n times.
C1_TruncationReturnsDecodedPrefix ==
    Ended =>
      IF \E i \in DOMAIN returned : ~returned[i]
      THEN LET k == CHOOSE i \in DOMAIN returned :
                        ~returned[i] /\ \A j \in 1..(i - 1) : returned[j]
           IN /\ Len(returned) = k
              /\ result = "frames"
              /\ Len(frames) = k - 1
      ELSE Len(returned) = frame_count

\* C2: every decoded frame, joints included, consumes one slot of the frame
\* index: after j successful deserialize_frame calls frame_index = j + 1 and
\* the i-th frame of the file is the one registered under frame index i.
C2_EveryFrameConsumesOneIndex ==
    /\ frame_index = OkCount + 1
    /\ \A i \in 1..OkCount :
          /\ i \in DOMAIN frame_types
          /\ frame_types[i] = file[i].frame_type
          /\ i \in DOMAIN frames_map
          /\ frames_map[i] = IF file[i].frame_type = FRAME_JOINT
                             THEN JointEntry(file[i].name) ELSE ObjectEntry(i)

\* C3: after apply_deferred_parenting every decoded non-joint frame c whose
\* parent_index p > 0 is not its own frame index and is the frame index of a
\* decoded non-joint frame has the object of frame p as its parent, whether
\* frame p was decoded before or after c.
C3_ParentLinksResolved ==
    AfterParenting =>
      \A c \in DOMAIN objects :
         LET p == file[c].parent_id IN
         (p > 0 /\ p # IndexOf(c) /\ p \in DOMAIN frames_map /\ ~frames_map[p].joint)
            => objects[c].parent = frames_map[p].obj

\* a forward reference and a backward reference were both resolved
C3_Witness ==
    /\ AfterParenting
    /\ \E c \in DOMAIN objects :
          /\ file[c].parent_id > IndexOf(c)
          /\ file[c].parent_id \in DOMAIN frames_map
          /\ ~frames_map[file[c].parent_id].joint
          /\ objects[c].parent = frames_map[file[c].parent_id].obj
    /\ \E c \in DOMAIN objects :
          /\ file[c].parent_id > 0
          /\ file[c].parent_id < IndexOf(c)
          /\ ~frames_map[file[c].parent_id].joint
          /\ objects[c].parent = frames_map[file[c].parent_id].obj

\* C4: after apply_deferred_parenting a child whose parent_index names a
\* Joint-type frame is attached to the armature by bone parenting, to the bone
\* of that joint, and not by plain object parenting; a child whose parent
\* frame has any other type is attached by plain object parenting to that
\* frame's object.
C4_AttachmentFollowsParentType ==
    AfterParenting =>
      \A c \in DOMAIN objects :
         LET p == file[c].parent_id IN
         (p > 0 /\ p # IndexOf(c) /\ p \in DOMAIN frames_map) =>
            IF frame_types[p] = FRAME_JOINT
            THEN objects[c] = [parent |-> ARMATURE, parent_type |-> "BONE",
                               parent_bone |-> frames_map[p].name]
            ELSE objects[c] = [parent |-> frames_map[p].obj,
                               parent_type |-> "OBJECT", parent_bone |-> ""]

\* C5: a frame whose parent_index equals its own frame index is decoded, has
\* no parent after apply_deferred_parenting, and the pass raises nothing and
\* goes on through the rest of the queue.
C5_SelfParentLeftUnparented ==
    AfterParenting =>
      /\ Len(parent_ops) = Len(parenting_info)
      /\ \A c \in DOMAIN objects :
            file[c].parent_id = IndexOf(c) => objects[c] = NewObject

\* C6: a child whose queued parent_index is not in the frame registry is left
\* unparented by apply_deferred_parenting, nothing is raised, and every other
\* queued link is still resolved.
C6_UnresolvedParentLeftUnparented ==
    AfterParenting =>
      /\ Len(parent_ops) = Len(parenting_info)
      /\ \A c \in DOMAIN objects :
            LET p == file[c].parent_id IN
            /\ (p > 0 /\ p \notin DOMAIN frames_map) => objects[c] = NewObject
            /\ (p > 0 /\ p # IndexOf(c) /\ p \in DOMAIN frames_map)
                  => objects[c].parent # NONE


\* ------------------------------------------------------------------------
\* Properties of deserialize_material (SpecMaterial)
\* ------------------------------------------------------------------------
\* the bytes of one material record as the file format lays it out
MaterialRecordSize(rec) ==
    4 + 3 * 12 + 4
    + (IF HasFlag(rec.flags, MTL_ENVMAP) THEN 4 + 1 + Len(rec.env_tex) ELSE 0)
    + 1 + Len(rec.diffuse_tex)
    + (IF HasFlag(rec.flags, MTL_ADDEFFECT) /\ HasFlag(rec.flags, MTL_ALPHATEX)
       THEN 1 + Len(rec.alpha_tex) ELSE 0)
    + (IF HasFlag(rec.flags, MTL_ANIMTEXDIFF) THEN 18 ELSE 0)

\* C7: records with the same diffuse-texture name get one material handle,
\* and every deserialize_material call, cache hit or miss, moves the stream
\* by exactly the bytes of its own record, alpha-texture name and 18-byte
\* animated-texture block included.
C7_MaterialCacheKeepsCursor ==
    /\ \A a \in mat_returned : \A b \in mat_returned : a[1] = b[1] => a[2] = b[2]
    /\ mat_calls > 0 => mat_last.consumed = MaterialRecordSize(mat_last.rec)

\* a cache hit on a record that carries an alpha name and the animated block
C7_Witness ==
    /\ mat_last.hit
    /\ HasAlphaTex(mat_last.rec.flags)
    /\ mat_last.rec.alpha_tex # <<>>
    /\ HasFlag(mat_last.rec.flags, MTL_ANIMTEXDIFF)
    /\ \E a \in mat_returned : a[2] = mat_last.handle /\ a[1] = MaterialName(mat_last.rec)

\* ------------------------------------------------------------------------
\* Properties of deserialize_object (SpecLod)
\* ------------------------------------------------------------------------
\* C8: a deserialize_object call that returns leaves the stream at the end of
\* the mesh payload, with LOD import disabled (LODs after the first skipped
\* by seek) as with LOD import enabled (every LOD read), so the two positions
\* are equal whatever the LOD, vertex, face-group and face counts.
C8_LodSkipKeepsPosition ==
    /\ (lod_skip.done /\ lod_skip.raised = "") => lod_skip.pos = Len(lod_stream)
    /\ (lod_read.done /\ lod_read.raised = "") => lod_read.pos = Len(lod_stream)
    /\ (lod_skip.done /\ lod_read.done /\ lod_skip.raised = "" /\ lod_read.raised = "")
          => lod_skip.pos = lod_read.pos

\* both calls returned on a payload whose second LOD has vertices and faces
\* in two groups, built by the one call and skipped by the other
C8_Witness ==
    /\ lod_skip.done /\ lod_skip.raised = ""
    /\ lod_read.done /\ lod_read.raised = ""
    /\ Len(lod_skip.lods) = 1
    /\ Len(lod_read.lods) = 2
    /\ lod_read.lods[2].num_vertices = 3
    /\ lod_read.lods[2].num_faces >= 1
    /\ ReadU8(lod_stream, 2) = 2

\* ------------------------------------------------------------------------
\* Properties of the mesh round trip (SpecRoundTrip)
\* ------------------------------------------------------------------------
\* the triangles of the mesh handed to the encoder
SceneTriangles ==
    [k \in DOMAIN rt_mesh.faces |->
        [c \in 1..3 |-> VertexCo(rt_mesh.faces[k].verts[c])]]

\* C9: an unskinned mesh written by serialize_object is read back by
\* deserialize_object: the encoder writes the payload, the decoder consumes
\* exactly those bytes, and the decoded mesh has the same number of
\* triangles, each with the corners of the original in the original order
\* (the (i0, i2, i1) permutation applied on encode and again on decode).
C9_UnskinnedMeshRoundTrip ==
    /\ rt_pc # "encode_raised"
    /\ rt_pc = "decoded" =>
          /\ rt_decoded.raised = ""
          /\ rt_decoded.pos = Len(rt_encoded.bytes)
          /\ Len(rt_decoded.triangles) = Len(rt_mesh.faces)
          /\ rt_decoded.triangles = SceneTriangles

\* ------------------------------------------------------------------------
\* Properties of apply_skinning (SpecSkin)
\* ------------------------------------------------------------------------
RECURSIVE SumCounts(_, _)
\* sum over the first k bones of locked_i + weighted_i
SumCounts(groups, k) ==
    IF k = 0 THEN 0
    ELSE SumCounts(groups, k - 1) + groups[k].num_locked + Len(groups[k].weights)

\* the vertices in the vertex group of the base bone
BaseBoneVertices == { v \in 0..(total_vertices - 1) : <<BASE_BONE, v>> \in DOMAIN vertex_weights }

\* the cursor equation and the base-bone weight of the uncovered vertices
SkinCursorEquation ==
    LET covered == SumCounts(lod_vertex_groups, Len(lod_vertex_groups))
    IN /\ covered + Cardinality(BaseBoneVertices) = total_vertices
       /\ \A v \in 0..(total_vertices - 1) :
             v >= covered => /\ <<BASE_BONE, v>> \in DOMAIN vertex_weights
                             /\ vertex_weights[<<BASE_BONE, v>>] = 10

\* C10 as stated: for every skin binding apply_skinning applies to a mesh of
\* N vertices, the locked and weighted counts of all bones plus the number of
\* base-bone vertices equal N, and every uncovered vertex has weight 1.0 on
\* the base bone.
C10_SkinCursorAnyBinding == skin_pc = "done" => SkinCursorEquation

\* C10: for every skin binding whose locked and weighted counts total at
\* most N, the mesh's vertex count, apply_skinning leaves the counts of all
\* bones plus the number of base-bone vertices equal to N, and every
\* uncovered vertex with weight 1.0 on the base bone.
C10_SkinCursorWithinMesh ==
    (skin_pc = "done"
        /\ SumCounts(lod_vertex_groups, Len(lod_vertex_groups)) <= total_vertices)
    => SkinCursorEquation

\* two bones with locked and weighted vertices, and vertices left for the base
C10_Witness ==
    /\ skin_pc = "done"
    /\ Len(lod_vertex_groups) = 2
    /\ \A k \in 1..2 : /\ lod_vertex_groups[k].num_locked > 0
                       /\ lod_vertex_groups[k].weights # <<>>
    /\ SumCounts(lod_vertex_groups, 2) < total_vertices
    /\ BaseBoneVertices # {}

\* ------------------------------------------------------------------------
\* Properties of build_armature (Spec)
\* ------------------------------------------------------------------------
\* import_file has gone past "if self.armature and self.joints: ..."
AfterArmature == pc \in {"parenting", "animation", "done", "raised"}

\* two joints of self.joints with parent_id 1 carry different scales
RootScalesDiffer ==
    \E a \in DOMAIN joints : \E b \in DOMAIN joints :
        /\ joints[a].parent_id = 1
        /\ joints[b].parent_id = 1
        /\ joints[a].scale # joints[b].scale

\* C11: when two root-level joints (parent_id 1) of the armature carry
\* different scale factors, build_armature raises NotImplementedError
\* ("Non-uniform armature scaling is not supported"): it never returns with
\* the armature's bones built and a scale taken from one of the joints.
C11_NonUniformScaleRaises ==
    (AfterArmature /\ armature /\ RootScalesDiffer)
    => /\ pc = "raised"
       /\ result = "NotImplementedError"
       /\ armature_bones = {MeshName}
       /\ skinned = {}

\* build_armature met a root joint of scale (1, 1, 1) and one of another scale
C11_Witness ==
    /\ pc = "raised"
    /\ result = "NotImplementedError"
    /\ RootScalesDiffer
    /\ armature_scale_factor # 0

\* ------------------------------------------------------------------------
\* Properties of the build_armature override (SpecWrapped)
\* ------------------------------------------------------------------------
\* build_armature was called and raised NotImplementedError
ArmatureRaised ==
    /\ AfterArmature
    /\ armature
    /\ joints # <<>>
    /\ BuildArmature(joints, frames_map, 0).raised

\* C12: when build_armature raises the non-uniform-scale error under the
\* override of Mafia_Formats / Scene2Importer, the error is caught,
\* import_file goes on and returns the frames, and every skinned mesh is in
\* the frames but un-skinned: apply_skinning has put no armature modifier and
\* no vertex-group weights on it.
C12_DegradedContinueLeavesMeshUnskinned ==
    ArmatureRaised =>
       /\ result # "NotImplementedError"
       /\ \A i \in DOMAIN skinned_meshes :
             /\ \E k \in DOMAIN frames : frames[k] = skinned_meshes[i]
             /\ skinned_meshes[i] \notin skinned

HeaderRead == pc # "header"

BadHeader == magic # MAGIC \/ version # VERSION_MAFIA

\* C13: when the magic is not that of a 4DS file or the version is not 29,
\* import_file returns None and has read no material record and no frame
\* record: no material, no registered frame, no queued parent link.
C13_BadHeaderAborts ==
    (HeaderRead /\ BadHeader)
    => /\ pc = "aborted" /\ result = "None"
       /\ materials = 0 /\ frame_count = 0
       /\ frames = <<>> /\ frames_map = EmptyMap /\ frame_index = 1
       /\ objects = EmptyMap /\ parenting_info = <<>> /\ parent_ops = <<>>

C13_Witness == pc = "aborted" /\ magic = MAGIC /\ version = VERSION_HD2 /\ result = "None"

\* C14: once the frame loop has ended and the queue was resolved, import_file
\* reads the animation flag and returns the frame list whatever the stream
\* still holds, also with no byte left: no exception leaves import_file.
C14_AnimationFlagNeverRaises ==
    (Ended /\ AfterParenting) => (pc = "done" /\ result = "frames")

\* the decoded file is the minimal one: no material, one Dummy frame without
\* parent, and the animation flag was read
MinimalFileDecoded ==
    /\ pc = "done" /\ materials = 0 /\ frame_count = 1 /\ Len(file) = 1
    /\ file[1].frame_type = FRAME_DUMMY /\ file[1].parent_id = 0

\* C15: the minimal file (no material, one Dummy frame with parent_index 0 and
\* a bounding box, animation flag read) decodes to exactly one scene node named
\* after the frame, displayed as a cube with the box stored on it, without
\* parent and without children, and frame_index is 2 afterwards.
C15_MinimalFileDecodesToOneDummy ==
    MinimalFileDecoded
    => /\ result = "frames" /\ frames = <<1>> /\ DOMAIN objects = {1}
       /\ objects[1] = NewObject
       /\ \A o \in DOMAIN objects : objects[o].parent # 1
       /\ empties[1].name = file[1].name
       /\ empties[1].empty_display_type = "CUBE"
       /\ empties[1].bbox_min = Reorder(file[1].bbox.min)
       /\ empties[1].bbox_max = Reorder(file[1].bbox.max)
       /\ frame_index = 2
       /\ parenting_info = <<>> /\ parent_ops = <<>>

C15_Witness ==
    /\ MinimalFileDecoded /\ frames = <<1>> /\ frame_index = 2
    /\ file[1].bbox.max = <<2, 4, 6>> /\ empties[1].bbox_max = <<2, 6, 4>>

\* C16: the vector swap and the quaternion swap are involutions, and
\* read_vector3 / read_quat with reorder return the value that write_vector3 /
\* write_quat with reorder wrote.
C16_AxisSwapInvolution ==
    /\ (h_value.kind = "vector3") => Reorder(Reorder(h_value.value)) = h_value.value
    /\ (h_value.kind = "quat")
          => ReorderQuat(ReorderQuat(h_value.value)) = h_value.value
    /\ (h_pc = "read" /\ h_value.kind \in {"vector3", "quat"})
          => h_read.value = h_value.value

C16_Witness ==
    /\ h_pc = "read" /\ h_value.kind = "quat"
    /\ h_value.value[3] # h_value.value[4]
    /\ h_read.value = h_value.value
    /\ ReadF32(h_stream, 8) = h_value.value[4]

StringCallMade == h_value.kind = "string" /\ h_pc # "value"

\* C18: write_string raises exactly when the encoded string is longer than 255
\* bytes and then has written no byte; otherwise it writes 1 + length bytes,
\* and read_string consumes them all.
C18_StringTooLongWritesNothing ==
    StringCallMade
    => /\ (h_pc = "raised") <=> (Len(Encode(h_value.value)) > MAX_STRING)
       /\ (h_pc = "raised") => h_stream = <<>>
       /\ (h_pc # "raised") => Len(h_stream) = 1 + Len(Encode(h_value.value))
       /\ (h_pc = "read") => h_read.pos = Len(h_stream)

C18_Witness ==
    /\ h_value.kind = "string" /\ h_pc = "raised"
    /\ Len(h_value.value) = MAX_STRING + 1 /\ h_stream = <<>>

\* the place of a phase in import_file
PhaseRank(phase) ==
    CASE phase = "header"    -> 1
      [] phase = "materials" -> 2
      [] phase = "frames"    -> 3
      [] phase = "armature"  -> 4
      [] phase = "parenting" -> 5
      [] phase = "animation" -> 6
      [] phase = "done"      -> 7
      [] OTHER               -> 8

\* a step of import_file moves to a later phase, or stays in the frame loop,
\* and enters each phase from the phase before it
PhaseStep ==
    /\ (PhaseRank(pc') > PhaseRank(pc)) \/ (pc = "frames" /\ pc' = "frames")
    /\ (pc' = "materials") => (pc = "header")
    /\ (pc' \in {"frames", "armature"}) => (pc \in {"materials", "frames"})
    /\ (pc' = "parenting") => (pc = "armature")
    /\ (pc' = "animation") => (pc = "parenting")
    /\ (pc' = "done") => (pc = "animation")

\* nothing of the queue is resolved, and no joint is a bone, before its phase
PhaseEffects ==
    /\ (PhaseRank(pc) <= 5) => parent_ops = <<>>
    /\ (PhaseRank(pc) <= 4) => (armature_bones \subseteq {MeshName} /\ skinned = {})
    /\ (PhaseRank(pc) <= 2) => (frames = <<>> /\ joints = <<>>)

\* C19: the phases run in the order header, material table, frame loop,
\* armature construction and skinning, deferred parenting, animation flag,
\* done; no queued parent is resolved before the frame loop has ended and the
\* armature step has run, and the joints become bones in one step after the loop.
C19_PhaseOrder == [](PhaseEffects) /\ [][PhaseStep]_vars

C19_Witness ==
    /\ pc = "done" /\ parent_ops # <<>> /\ Len(joints) = 2
    /\ armature_bones = {MeshName, "j1", "j2"}

\* the vertices of the mesh that carry a weight in the group of bone i
GroupVertices(i) ==
    { v \in 0..(total_vertices - 1) : <<i - 1, v>> \in DOMAIN vertex_weights }

\* bone i took the indices from the end of bone i - 1 on: its locked vertices
\* first, with weight 1.0, then its weighted vertices with their weights
BlockOrder(i) ==
    LET start  == SumCounts(lod_vertex_groups, i - 1)
        locked == lod_vertex_groups[i].num_locked
        ws     == lod_vertex_groups[i].weights
    IN /\ GroupVertices(i)
            = { v \in 0..(total_vertices - 1) :
                    start <= v /\ v < SumCounts(lod_vertex_groups, i) }
       /\ \A v \in GroupVertices(i) :
             IF v < start + locked
             THEN vertex_weights[<<i - 1, v>>] = 10
             ELSE vertex_weights[<<i - 1, v>>] = ws[v - (start + locked) + 1]
       /\ \A j \in 1..(i - 1) : GroupVertices(j) \cap GroupVertices(i) = {}

\* C20: the cursor of apply_skinning starts at 0 and advances in bone order,
\* locked vertices of a bone before its weighted ones: the blocks are
\* contiguous and disjoint, and after bone i the cursor is the sum of
\* locked_j + weighted_j over the bones j <= i.
C20_SkinCursorOrder ==
    (skin_pc # "idle")
    => /\ vertex_counter = SumCounts(lod_vertex_groups, skin_next - 1)
       /\ \A i \in 1..(skin_next - 1) : BlockOrder(i)

C20_Witness ==
    /\ skin_pc = "done" /\ Len(lod_vertex_groups) = 2 /\ skin_next = 3
    /\ lod_vertex_groups[1] = [num_locked |-> 1, weights |-> <<5, 3>>]
    /\ lod_vertex_groups[2] = [num_locked |-> 1, weights |-> <<5>>]
    /\ vertex_counter = 5 /\ total_vertices = 5
    /\ vertex_weights[<<1, 3>>] = 10 /\ vertex_weights[<<1, 4>>] = 5

\* C21: the vertex group that receives the vertices of a skin bone record is
\* the group of the joint whose decoded bone id is the bone id stored in the
\* record, not the one at the record's place in the skin bone list.
C21_GroupFollowsStoredBoneId ==
    \A i \in DOMAIN vertex_group_names :
        (file_bone_ids[i] \in DOMAIN SkinBoneNodes)
        => vertex_group_names[i] = SkinBoneNodes[file_bone_ids[i]]

\* C22: deserialize_material consumes exactly the bytes serialize_material
\* wrote for a record, whatever flag word the encoder built: the flag word, the
\* colours and opacity, the env block iff the env-map flag is set, the diffuse
\* name, and the alpha name iff add-effect and alpha-texture are both set.
C22_MaterialRecordAligned ==
    (h_value.kind = "material" /\ h_pc = "read")
    => /\ h_read.pos = Len(h_stream)
       /\ h_read.value = MaterialFlags(h_value.value)

C22_Witness ==
    /\ h_value.kind = "material" /\ h_pc = "read"
    /\ HasFlag(h_read.value, MTL_ENVMAP) /\ HasAlphaTex(h_read.value)
    /\ h_read.pos = Len(h_stream) /\ Len(h_stream) = 44 + 4 + 4 + 3 + 2

\* ------------------------------------------------------------------------
\* Properties of serialize_file
\* ------------------------------------------------------------------------
\* C23: every frame record serialize_file writes - the objects, then the
\* joints of every armature - has the frame index of its 1-based position in
\* the written frame list, so no two written records share a frame index.
C23_EncoderFrameIndicesSequential ==
    \A i \in DOMAIN e_written : e_written[i].index = i

\* C27: once serialize_file has written every frame, the parent_id in the
\* header of an object whose parent is exported is the frame index of that
\* parent, whichever of the two was serialized first; an object without a
\* parent has parent_id 0.
C27_EncoderParentLinks ==
    \A i \in DOMAIN e_written :
        LET r == e_written[i]
        IN  r.object # 0 =>
                IF e_objects[r.object].parent = 0
                THEN r.parent_id = 0
                ELSE e_pc = "done" =>
                         r.parent_id =
                             e_frames_map[ObjKey(e_objects[r.object].parent)]

\* C28: the frame record serialize_frame writes for a decoded scene node has
\* the frame_type of the frame the node was decoded from, and for a visual
\* frame its visual_type.
C28_FrameTypePreserved ==
    \A i \in DOMAIN e_written :
        LET r == e_written[i]
        IN  r.object # 0 =>
                /\ r.frame_type = e_objects[r.object].from.frame_type
                /\ r.frame_type = FRAME_VISUAL =>
                       r.visual_type = e_objects[r.object].from.visual_type

\* C24: deserialize_morph leaves the stream at the first byte after the morph
\* payload serialize_morph wrote, whatever the target, channel, LOD and
\* per-channel vertex counts.
C24_MorphPayloadAligned ==
    (h_value.kind = "morph" /\ h_pc = "read")
    => h_read.pos = Len(h_stream)

\* C26: for every frame type that puts the header transform on its scene
\* node, the rotation of the node is the stored quaternion with the y/z swap
\* applied exactly once.
C26_RotationSwappedOnce ==
    (h_value.kind = "rotation" /\ h_pc = "read")
    => h_read.value = ReorderQuat(StoredQuat(h_stream, 0))

\* C29: when build_armature has run without raising, every joint that is not
\* a root joint (parent_id 1) and whose parent_id names another decoded joint
\* has that joint's bone as parent bone, wherever the parent joint stands in
\* the file; it has the base bone as parent only when parent_id names no
\* decoded joint.
C29_JointParentResolved ==
    (AfterArmature /\ armature /\ joints # <<>>
     /\ ~BuildArmature(joints, frames_map, 0).raised)
    => \A i \in DOMAIN joints :
           LET parent_id == joints[i].parent_id
               named == /\ parent_id \in DOMAIN frames_map
                        /\ frames_map[parent_id].joint
               parent_bone == BuildArmature(joints, frames_map, 0).parents[i]
           IN  parent_id # 1 =>
                   IF named
                   THEN frames_map[parent_id].name # joints[i].name
                            => parent_bone = frames_map[parent_id].name
                   ELSE parent_bone = MeshName

BatchPopped ==
    LET n == IF b_batch_size < Len(b_queue) THEN b_batch_size
             ELSE Len(b_queue)
    IN  (b_pc = "waiting" /\ b_session' = b_session)
        => b_queue' = SubSeq(b_queue, n + 1, Len(b_queue))

\* the reported progress is total minus remaining, one report per task
ProgressReported ==
    /\ \A i \in DOMAIN b_progress : b_progress[i] = i
    /\ b_pc \in {"waiting", "ended", "crashed"}
           => Len(b_progress) = b_total - Len(b_queue)

\* C30: every timer callback takes min(batch_size, remaining) tasks from the
\* front of the queue, the reported progress is total minus remaining and
\* never decreases, and a started session leads to the callback that finds
\* the queue empty and runs end_import_timer, which runs once per session.
C30_TimerImportTerminates ==
    /\ [][BatchPopped]_vars
    /\ [](ProgressReported /\ b_ended <= 1)
    /\ (b_pc = "waiting") ~> (b_pc = "ended" /\ b_ended = 1)

====
